---- MODULE Spec2Model ----
(***************************************************************************)
(* A model of the zflag flag registry and command-line parser              *)
(* (flag.go, float64.go).                                                  *)
(*                                                                         *)
(* Strings are sequences of bytes; a byte is a one-character TLA+ string,  *)
(* except the two bytes of the UTF-8 encoding of U+00E9, written "xC3" and *)
(* "xA9".  A *Flag is an index into the heap `flag`; a *FlagSet is an      *)
(* index into `fs`.  Maps are functions whose domain is the set of keys.   *)
(***************************************************************************)
EXTENDS Integers, Sequences, FiniteSets, TLC

VARIABLES
    fs,     \* [FlagSets -> FlagSet struct]
    flag,   \* [FlagIds  -> Flag struct], the heap of *Flag
    pc,     \* the Parse call in progress (position in parseAll/parseArgs)
    ret,    \* what the last completed call returned, and what it invoked
    hist    \* observation: Set events and call counters (no code reads it)

vars == <<fs, flag, pc, ret, hist>>

----------------------------------------------------------------------------
(* Bounds of the model.                                                    *)

\* longest argument vector handed to Parse by the parser specification
MaxArgs == 2
\* longest argument vector handed to Parse by the registry specification
MaxRegArgs == 1
\* most AddFlag calls made by the caller
MaxAdds == 3
\* most Set calls made directly by the caller
MaxSets == 3
\* most Parse calls on one registry (the registry specification makes one)
MaxParses == 2
\* most calls of registry operations in a behaviour of the registry specification
MaxCalls == 4
\* longest argument vector handed to Parse by the policy specification
MaxPolicyArgs == 2
\* longest argument vector handed to Parse by the unknown-flag specification
MaxUnknownArgs == 3
\* longest argument vector handed to Parse by the shorthand specification
MaxShortArgs == 2
\* longest argument vector handed to Parse by the repeated-parse specification
MaxReparseArgs == 2

----------------------------------------------------------------------------
(* Bytes, runes and strings.                                               *)

\* the bytes of the model in increasing byte value
Alphabet ==
    << " ", "-", "0", "1", "5", "=", "_", "a", "b", "c", "e", "f", "h", "l",
       "n", "o", "p", "q", "r", "s", "t", "u", "v", "x", "z", "xA9", "xC3" >>

ByteRank(b) == CHOOSE i \in 1..Len(Alphabet) : Alphabet[i] = b

NoRune == "U+0000"
RuneError == "U+FFFD"

\* utf8.DecodeRuneInString: the first rune of s and its width in bytes
DecodeRuneInString(s) ==
    IF Len(s) = 0 THEN [rune |-> RuneError, size |-> 0]
    ELSE IF s[1] = "xC3" /\ Len(s) >= 2 /\ s[2] = "xA9"
         THEN [rune |-> "U+00E9", size |-> 2]
    ELSE IF s[1] \in {"xC3", "xA9"} THEN [rune |-> RuneError, size |-> 1]
    ELSE [rune |-> s[1], size |-> 1]

\* the conversion rune(b) of one byte
ByteToRune(b) ==
    IF b = "xC3" THEN "U+00C3" ELSE IF b = "xA9" THEN "U+00A9" ELSE b

\* string(r): the UTF-8 encoding of a rune
RuneToString(r) ==
    IF r = "U+00E9" THEN <<"xC3", "xA9">>
    ELSE IF r = "U+00C3" THEN <<"xC3", "x83">>
    ELSE IF r = "U+00A9" THEN <<"xC2", "xA9">>
    ELSE IF r = RuneError THEN <<"xEF", "xBF", "xBD">>
    ELSE <<r>>

Drop(s, n) == SubSeq(s, n + 1, Len(s))

HasPrefix(s, p) == Len(s) >= Len(p) /\ SubSeq(s, 1, Len(p)) = p

\* strings.IndexByte, 1-based; 0 when b does not occur
IndexByte(s, b) ==
    IF \E i \in 1..Len(s) : s[i] = b
    THEN CHOOSE i \in 1..Len(s) : s[i] = b /\ \A j \in 1..(i - 1) : s[j] # b
    ELSE 0

\* strings.SplitN(s, "=", 2)
SplitN2(s) ==
    LET i == IndexByte(s, "=") IN
    IF i = 0 THEN <<s>> ELSE <<SubSeq(s, 1, i - 1), Drop(s, i)>>

RECURSIVE TrimLeft(_)
TrimLeft(s) == IF Len(s) > 0 /\ s[1] = " " THEN TrimLeft(Tail(s)) ELSE s

RECURSIVE TrimRight(_)
TrimRight(s) ==
    IF Len(s) > 0 /\ s[Len(s)] = " " THEN TrimRight(SubSeq(s, 1, Len(s) - 1)) ELSE s

\* strings.TrimSpace
TrimSpace(s) == TrimRight(TrimLeft(s))

\* the order of Go strings, bytewise lexicographic: a and b agree before some
\* index i of b, where a has ended or has the smaller byte
StrLess(a, b) ==
    \E i \in 1..Len(b) :
        /\ i <= Len(a) + 1
        /\ \A j \in 1..(i - 1) : a[j] = b[j]
        /\ IF i = Len(a) + 1 THEN TRUE ELSE ByteRank(a[i]) < ByteRank(b[i])

Range(s) == {s[i] : i \in 1..Len(s)}

\* the orders in which a range loop may produce the keys of a map
Orders(S) ==
    {s \in [1..Cardinality(S) -> S] : \A i, j \in 1..Cardinality(S) : i # j => s[i] # s[j]}

\* sort.StringSlice.Sort over a set of distinct strings
SortStrings(S) ==
    [i \in 1..Cardinality(S) |->
        CHOOSE x \in S : Cardinality({y \in S : StrLess(y, x)}) = i - 1]

\* a map with key k set to v
MapPut(m, k, v) == [x \in DOMAIN m \cup {k} |-> IF x = k THEN v ELSE m[x]]

\* a map with key k deleted
MapDelete(m, k) == [x \in DOMAIN m \ {k} |-> m[x]]

EmptyMap == [x \in {} |-> 0]

----------------------------------------------------------------------------
(* Flags: the *Flag objects a caller may construct and register.           *)

FlagSets == {1, 2}

\* the *Flag objects of the model, as the caller builds them before AddFlag
FlagDecl ==
    << [Name |-> <<"v", "b">>, Shorthand |-> "v", ShorthandOnly |-> FALSE,
        AddNegative |-> TRUE, Required |-> FALSE, Kind |-> "bool"],
       [Name |-> <<"n", "o", "-", "q">>, Shorthand |-> NoRune, ShorthandOnly |-> FALSE,
        AddNegative |-> TRUE, Required |-> FALSE, Kind |-> "bool"],
       [Name |-> <<"c", "-", "t">>, Shorthand |-> "c", ShorthandOnly |-> FALSE,
        AddNegative |-> FALSE, Required |-> TRUE, Kind |-> "float64"],
       [Name |-> <<"o", "p">>, Shorthand |-> "o", ShorthandOnly |-> FALSE,
        AddNegative |-> FALSE, Required |-> FALSE, Kind |-> "optional"],
       [Name |-> <<"s", "o">>, Shorthand |-> "s", ShorthandOnly |-> TRUE,
        AddNegative |-> FALSE, Required |-> FALSE, Kind |-> "float64"],
       [Name |-> <<"c", "_", "t">>, Shorthand |-> "c", ShorthandOnly |-> FALSE,
        AddNegative |-> FALSE, Required |-> TRUE, Kind |-> "float64"] >>

FlagIds == 1..Len(FlagDecl)

\* the nil *Flag
NilFlag == 0

\* the zero value a value adapter starts from
ZeroValue(kind) ==
    IF kind = "bool" THEN FALSE ELSE IF kind = "float64" THEN 0 ELSE <<>>

\* a Flag struct as built by the caller (Var: lines 968-973), before AddFlag
NewFlag(d) ==
    [Name |-> d.Name, Shorthand |-> d.Shorthand, ShorthandOnly |-> d.ShorthandOnly,
     AddNegative |-> d.AddNegative, Required |-> d.Required, Kind |-> d.Kind,
     Changed |-> FALSE, Value |-> ZeroValue(d.Kind)]

\* flag.Value.(BoolFlag)
IsBoolFlag(f) == f.Kind = "bool"

\* flag.Value.(OptionalValue)
IsOptional(f) == f.Kind = "optional"

----------------------------------------------------------------------------
(* Value adapters.                                                         *)

TrueTexts == { <<"1">>, <<"t">>, <<"t", "r", "u", "e">> }
FalseTexts == { <<"0">>, <<"f">>, <<"f", "a", "l", "s", "e">> }

\* strconv.ParseBool on the texts the Alphabet can spell
ParseBool(v) ==
    IF v \in TrueTexts THEN [v |-> TRUE, err |-> FALSE]
    ELSE IF v \in FalseTexts THEN [v |-> FALSE, err |-> FALSE]
    ELSE [v |-> FALSE, err |-> TRUE]

isBool(v) == ~ParseBool(v).err

Digits == {"0", "1", "5"}

DigitVal(b) == IF b = "0" THEN 0 ELSE IF b = "1" THEN 1 ELSE 5

RECURSIVE DecimalValue(_, _)
DecimalValue(s, acc) ==
    IF Len(s) = 0 THEN acc ELSE DecimalValue(Tail(s), 10 * acc + DigitVal(s[1]))

\* strconv.ParseFloat(val, 64) on the texts the Alphabet can spell: an optional
\* sign and decimal digits; anything else is a syntax error with value 0
ParseFloat(s) ==
    LET neg == Len(s) > 0 /\ s[1] = "-"
        body == IF neg THEN Tail(s) ELSE s
    IN IF Len(body) > 0 /\ \A i \in 1..Len(body) : body[i] \in Digits
       THEN [v |-> IF neg THEN 0 - DecimalValue(body, 0) ELSE DecimalValue(body, 0),
             err |-> FALSE]
       ELSE [v |-> 0, err |-> TRUE]

\* (*float64Value).Set: the parsed value is stored whether or not parsing failed
float64Set(old, val) ==
    LET r == ParseFloat(TrimSpace(val)) IN [Value |-> r.v, err |-> r.err]

\* the boolean value adapter: the empty text and the true literals give true
boolSet(old, val) ==
    LET t == TrimSpace(val)
        r == ParseBool(t)
    IN IF t = <<>> THEN [Value |-> TRUE, err |-> FALSE]
       ELSE IF r.err THEN [Value |-> old, err |-> TRUE]
       ELSE [Value |-> r.v, err |-> FALSE]

\* the optional-argument value adapter: keeps the text it is given
optionalSet(old, val) == [Value |-> val, err |-> FALSE]

\* flag.Value.Set(value), dispatched on the dynamic type of the value
ValueSet(f, val) ==
    IF f.Kind = "bool" THEN boolSet(f.Value, val)
    ELSE IF f.Kind = "float64" THEN float64Set(f.Value, val)
    ELSE optionalSet(f.Value, val)

----------------------------------------------------------------------------
(* Errors.                                                                 *)

Err(kind, name, flags) == [kind |-> kind, name |-> name, flags |-> flags]

NoErr == Err("nil", <<>>, <<>>)

ErrHelp == Err("ErrHelp", <<>>, <<>>)

NewUnknownFlagError(name) == Err("UnknownFlag", name, <<>>)

NewInvalidArgumentError(id, value) == Err("InvalidArgument", value, <<id>>)

MissingFlagsError(ids) == Err("MissingFlags", <<>>, ids)

----------------------------------------------------------------------------
(* The flag registry.                                                      *)

Normalizers == {"nil", "dash"}

\* the name-normalization functions of the model: "nil" is no function set
\* (the identity), "dash" maps every '_' to '-'
ApplyNormalizeFunc(n, name) ==
    IF n = "dash"
    THEN [i \in 1..Len(name) |-> IF name[i] = "_" THEN "-" ELSE name[i]]
    ELSE name

NewFlagSet(errorHandling) ==
    [SortFlags |-> TRUE, AllowUnknownFlags |-> FALSE, AllowRequiredFlags |-> FALSE,
     DisableBuiltinHelp |-> FALSE, parsed |-> FALSE,
     actual |-> EmptyMap, orderedActual |-> <<>>, sortedActual |-> <<>>,
     formal |-> EmptyMap, orderedFormal |-> <<>>, sortedFormal |-> <<>>,
     shorthands |-> EmptyMap, args |-> <<>>, argsLenAtDash |-> -1,
     errorHandling |-> errorHandling, interspersed |-> TRUE,
     normalizeNameFunc |-> "nil", unknownFlags |-> <<>>]

normalizeFlagName(F, name) == ApplyNormalizeFunc(F.normalizeNameFunc, name)

sortFlags(flags) ==
    LET list == SortStrings(DOMAIN flags)
    IN [i \in 1..Len(list) |-> flags[list[i]]]

\* fs.lookup / fs.Lookup: the flag registered under the normalized name, or nil
Lookup(F, name) ==
    LET n == normalizeFlagName(F, name)
    IN IF n \in DOMAIN F.formal THEN F.formal[n] ELSE NilFlag

ShorthandLookup(F, c) ==
    IF c = NoRune THEN NilFlag
    ELSE IF c \in DOMAIN F.shorthands THEN F.shorthands[c] ELSE NilFlag

\* GetAllFlags: the flags visited, and the registry with its refreshed cache
GetAllFlags(F) ==
    IF F.SortFlags
    THEN LET F1 == IF Cardinality(DOMAIN F.formal) # Len(F.sortedFormal)
                   THEN [F EXCEPT !.sortedFormal = sortFlags(F.formal)]
                   ELSE F
         IN [fs |-> F1, flags |-> F1.sortedFormal]
    ELSE [fs |-> F, flags |-> F.orderedFormal]

VisitAll(F) ==
    IF DOMAIN F.formal = {} THEN [fs |-> F, flags |-> <<>>] ELSE GetAllFlags(F)

\* GetFlags: the set flags visited, and the registry with its refreshed cache
GetFlags(F) ==
    IF F.SortFlags
    THEN LET F1 == IF Cardinality(DOMAIN F.actual) # Len(F.sortedActual)
                   THEN [F EXCEPT !.sortedActual = sortFlags(F.actual)]
                   ELSE F
         IN [fs |-> F1, flags |-> F1.sortedActual]
    ELSE [fs |-> F, flags |-> F.orderedActual]

RECURSIVE SelectIds(_, _, _)
SelectIds(ids, H, i) ==
    IF i > Len(ids) THEN <<>>
    ELSE (IF H[ids[i]].Required /\ ~H[ids[i]].Changed THEN <<ids[i]>> ELSE <<>>)
         \o SelectIds(ids, H, i + 1)

\* Validate: the error returned, and the registry (VisitAll refreshes a cache)
Validate(F, H) ==
    IF ~F.AllowRequiredFlags
    THEN LET v == VisitAll(F)
             missing == SelectIds(v.flags, H, 1)
         IN [fs |-> v.fs,
             err |-> IF Len(missing) > 0 THEN MissingFlagsError(missing) ELSE NoErr]
    ELSE [fs |-> F, err |-> NoErr]

\* Set with every successful call recorded in actual and orderedActual
SetRecordsEveryCall(F, H, name, value) ==
    LET normalName == normalizeFlagName(F, name) IN
    IF normalName \notin DOMAIN F.formal
    THEN [fs |-> F, flag |-> H, err |-> NewUnknownFlagError(name), calls |-> <<>>]
    ELSE LET id == F.formal[normalName]
             r == ValueSet(H[id], value)
             H1 == [H EXCEPT ![id].Value = r.Value]
             call == <<[flag |-> id, value |-> value]>>
         IN IF r.err
            THEN [fs |-> F, flag |-> H1, err |-> NewInvalidArgumentError(id, value),
                  calls |-> call]
            ELSE [fs |-> [F EXCEPT !.actual = MapPut(F.actual, normalName, id),
                                   !.orderedActual = Append(F.orderedActual, id)],
                  flag |-> [H1 EXCEPT ![id].Changed = TRUE],
                  err |-> NoErr, calls |-> call]

\* Set with an unregistered name accepted without an error
SetIgnoresUnknown(F, H, name, value) ==
    LET normalName == normalizeFlagName(F, name) IN
    IF normalName \notin DOMAIN F.formal
    THEN [fs |-> F, flag |-> H, err |-> NoErr, calls |-> <<>>]
    ELSE LET id == F.formal[normalName]
             r == ValueSet(H[id], value)
             H1 == [H EXCEPT ![id].Value = r.Value]
             call == <<[flag |-> id, value |-> value]>>
         IN IF r.err
            THEN [fs |-> F, flag |-> H1, err |-> NewInvalidArgumentError(id, value),
                  calls |-> call]
            ELSE IF ~H1[id].Changed
            THEN [fs |-> [F EXCEPT !.actual = MapPut(F.actual, normalName, id),
                                   !.orderedActual = Append(F.orderedActual, id)],
                  flag |-> [H1 EXCEPT ![id].Changed = TRUE],
                  err |-> NoErr, calls |-> call]
            ELSE [fs |-> F, flag |-> H1, err |-> NoErr, calls |-> call]

\* Set: the registry, the heap, the error and the value adapters invoked
Set(F, H, name, value) ==
    LET normalName == normalizeFlagName(F, name) IN
    IF normalName \notin DOMAIN F.formal
    THEN [fs |-> F, flag |-> H, err |-> NewUnknownFlagError(name), calls |-> <<>>]
    ELSE LET id == F.formal[normalName]
             r == ValueSet(H[id], value)
             H1 == [H EXCEPT ![id].Value = r.Value]
             call == <<[flag |-> id, value |-> value]>>
         IN IF r.err
            THEN [fs |-> F, flag |-> H1, err |-> NewInvalidArgumentError(id, value),
                  calls |-> call]
            ELSE IF ~H1[id].Changed
            THEN [fs |-> [F EXCEPT !.actual = MapPut(F.actual, normalName, id),
                                   !.orderedActual = Append(F.orderedActual, id)],
                  flag |-> [H1 EXCEPT ![id].Changed = TRUE],
                  err |-> NoErr, calls |-> call]
            ELSE [fs |-> F, flag |-> H1, err |-> NoErr, calls |-> call]

\* AddFlag: the registry, the heap and whether the call panicked
AddFlag(F, H, id) ==
    LET normalizedFlagName == normalizeFlagName(F, H[id].Name) IN
    IF normalizedFlagName \in DOMAIN F.formal
    THEN [fs |-> F, flag |-> H, panic |-> TRUE]
    ELSE LET H1 == [H EXCEPT ![id].Name = normalizedFlagName]
             F1 == [F EXCEPT !.formal = MapPut(F.formal, normalizedFlagName, id),
                             !.orderedFormal = Append(F.orderedFormal, id)]
         IN IF H1[id].Shorthand = NoRune
            THEN [fs |-> F1, flag |-> H1, panic |-> FALSE]
            ELSE IF H1[id].Shorthand \in DOMAIN F1.shorthands
            THEN [fs |-> F1, flag |-> H1, panic |-> TRUE]
            ELSE [fs |-> [F1 EXCEPT !.shorthands =
                              MapPut(F1.shorthands, H1[id].Shorthand, id)],
                  flag |-> H1, panic |-> FALSE]

RemoveFlag(F, name) ==
    LET normalizedFlagName == normalizeFlagName(F, name) IN
    IF normalizedFlagName \in DOMAIN F.formal
    THEN [F EXCEPT !.formal = MapDelete(F.formal, normalizedFlagName)]
    ELSE F

\* the range loop of AddFlagSet over the flags VisitAll yields, from index i
RECURSIVE AddFlagSetLoop(_, _, _, _)
AddFlagSetLoop(F, H, ids, i) ==
    IF i > Len(ids) THEN [fs |-> F, flag |-> H, panic |-> FALSE]
    ELSE IF Lookup(F, H[ids[i]].Name) = NilFlag
    THEN LET a == AddFlag(F, H, ids[i])
         IN IF a.panic THEN a ELSE AddFlagSetLoop(a.fs, a.flag, ids, i + 1)
    ELSE AddFlagSetLoop(F, H, ids, i + 1)

\* AddFlagSet(newSet): the receiver, newSet (VisitAll refreshes its cache), the heap
AddFlagSet(F, G, H) ==
    LET v == VisitAll(G)
        a == AddFlagSetLoop(F, H, v.flags, 1)
    IN [fs |-> a.fs, newSet |-> v.fs, flag |-> a.flag, panic |-> a.panic]

\* the range loop of SetNormalizeFunc over the keys of formal in the order `keys`
\* (Go leaves the order open); an entry deleted before it is reached is not
\* produced, and an entry created by the loop is already normalized
RECURSIVE SetNormalizeLoop(_, _, _, _)
SetNormalizeLoop(F, H, keys, i) ==
    IF i > Len(keys) THEN [fs |-> F, flag |-> H]
    ELSE LET fname == keys[i] IN
         IF fname \notin DOMAIN F.formal THEN SetNormalizeLoop(F, H, keys, i + 1)
         ELSE LET id == F.formal[fname]
                  nname == normalizeFlagName(F, H[id].Name)
              IN IF fname = nname THEN SetNormalizeLoop(F, H, keys, i + 1)
                 ELSE LET H1 == [H EXCEPT ![id].Name = nname]
                          formal1 == MapPut(MapDelete(F.formal, fname), nname, id)
                          actual1 == IF fname \in DOMAIN F.actual
                                     THEN MapPut(MapDelete(F.actual, fname), nname, id)
                                     ELSE F.actual
                      IN SetNormalizeLoop([F EXCEPT !.formal = formal1,
                                                    !.actual = actual1],
                                          H1, keys, i + 1)

\* SetNormalizeFunc that installs the function and re-keys nothing
SetNormalizeFuncWithoutRekey(F, H, n, keys) ==
    [fs |-> [F EXCEPT !.normalizeNameFunc = n, !.sortedFormal = <<>>], flag |-> H]

\* SetNormalizeFunc(n), the range loop producing the keys in the order `keys`
SetNormalizeFunc(F, H, n, keys) ==
    SetNormalizeLoop([F EXCEPT !.normalizeNameFunc = n, !.sortedFormal = <<>>],
                     H, keys, 1)

----------------------------------------------------------------------------
(* The parser.                                                             *)

addUnknownFlag(F, s) == [F EXCEPT !.unknownFlags = Append(F.unknownFlags, s)]

\* stripUnknownFlagValue with the swallowed value left out of unknownFlags
stripUnknownFlagValueUnrecorded(F, args) ==
    IF Len(args) = 0 THEN [fs |-> F, args |-> args]
    ELSE IF Len(args[1]) > 0 /\ args[1][1] = "-" THEN [fs |-> F, args |-> args]
    ELSE IF Len(args) > 1 THEN [fs |-> F, args |-> Tail(args)]
    ELSE [fs |-> F, args |-> <<>>]

\* stripUnknownFlagValue: the registry and the arguments left
stripUnknownFlagValue(F, args) ==
    IF Len(args) = 0 THEN [fs |-> F, args |-> args]
    ELSE IF Len(args[1]) > 0 /\ args[1][1] = "-" THEN [fs |-> F, args |-> args]
    ELSE IF Len(args) > 1 THEN [fs |-> addUnknownFlag(F, args[1]), args |-> Tail(args)]
    ELSE [fs |-> F, args |-> <<>>]

\* the result of a parse function that ends before the setter is reached
ParseStop(F, H, outArgs, err) ==
    [fs |-> F, flag |-> H, outArgs |-> outArgs, err |-> err, calls |-> <<>>]

\* the parseFunc of Parse (lines 1345-1347) applied to the resolved flag: the
\* setter record [flag, value, set] is what the parser handed to it
setter(F, H, id, value, outArgs) ==
    LET r == Set(F, H, H[id].Name, value)
    IN [fs |-> r.fs, flag |-> r.flag, outArgs |-> outArgs, err |-> r.err,
        calls |-> <<[flag |-> id, value |-> value, set |-> r.calls]>>]

\* the `--no-<name>` retargeting of parseLongArg: the flag the name resolves
\* to (or nil), and the name after a retarget
resolveLong(F, H, name, hasNoPrefix) ==
    LET n == normalizeFlagName(F, name)
        exists == n \in DOMAIN F.formal
        b == IF Len(name) > 3 THEN normalizeFlagName(F, Drop(name, 3)) ELSE <<>>
    IN IF exists THEN [flag |-> F.formal[n], exists |-> TRUE, name |-> name]
       ELSE IF Len(name) > 3 /\ hasNoPrefix /\ b \in DOMAIN F.formal
               /\ H[F.formal[b]].AddNegative /\ IsBoolFlag(H[F.formal[b]])
       THEN [flag |-> F.formal[b], exists |-> TRUE, name |-> Drop(name, 3)]
       ELSE [flag |-> NilFlag, exists |-> FALSE, name |-> name]

\* unresolvedLong with the UnknownFlags allowance consulted before the
\* built-in help name
unresolvedLongAllowanceFirst(F, H, s, split, res, outArgs) ==
    IF F.AllowUnknownFlags \/ (res.flag # NilFlag /\ H[res.flag].ShorthandOnly)
    THEN IF Len(split) >= 2
         THEN ParseStop(addUnknownFlag(F, s), H, outArgs, NoErr)
         ELSE LET st == stripUnknownFlagValue(addUnknownFlag(F, s), outArgs)
              IN ParseStop(st.fs, H, st.args, NoErr)
    ELSE IF ~res.exists /\ res.name = <<"h", "e", "l", "p">> /\ ~F.DisableBuiltinHelp
    THEN ParseStop(F, H, outArgs, ErrHelp)
    ELSE ParseStop(F, H, outArgs, NewUnknownFlagError(res.name))

\* the branch of parseLongArg taken when the name is not resolved or names a
\* shorthand-only flag (lines 1119-1138)
unresolvedLong(F, H, s, split, res, outArgs) ==
    IF ~res.exists /\ res.name = <<"h", "e", "l", "p">> /\ ~F.DisableBuiltinHelp
    THEN ParseStop(F, H, outArgs, ErrHelp)
    ELSE IF F.AllowUnknownFlags \/ (res.flag # NilFlag /\ H[res.flag].ShorthandOnly)
    THEN IF Len(split) >= 2
         THEN ParseStop(addUnknownFlag(F, s), H, outArgs, NoErr)
         ELSE LET st == stripUnknownFlagValue(addUnknownFlag(F, s), outArgs)
              IN ParseStop(st.fs, H, st.args, NoErr)
    ELSE ParseStop(F, H, outArgs, NewUnknownFlagError(res.name))

\* longValue with a missing argument taken as the empty text
longValueEmptyWhenMissing(f, s, split, hasNoPrefix, outArgs) ==
    LET nextArgIsFlagValue ==
            Len(outArgs) > 0 /\ Len(outArgs[1]) > 0 /\ outArgs[1][1] # "-"
    IN IF Len(split) = 2
       THEN IF hasNoPrefix /\ IsBoolFlag(f)
            THEN [value |-> split[2], outArgs |-> outArgs,
                  err |-> Err("CannotHaveValue", s, <<>>)]
            ELSE [value |-> split[2], outArgs |-> outArgs, err |-> NoErr]
       ELSE IF IsBoolFlag(f)
       THEN [value |-> IF ~hasNoPrefix THEN <<"t", "r", "u", "e">>
                       ELSE <<"f", "a", "l", "s", "e">>,
             outArgs |-> outArgs, err |-> NoErr]
       ELSE IF nextArgIsFlagValue
       THEN [value |-> outArgs[1], outArgs |-> Tail(outArgs), err |-> NoErr]
       ELSE [value |-> <<>>, outArgs |-> outArgs, err |-> NoErr]

\* the value a resolved long flag gets (lines 1140-1162): the value text, the
\* arguments left, and the error that ends the parse before the setter
longValue(f, s, split, hasNoPrefix, outArgs) ==
    LET flagIsBool == IsBoolFlag(f)
        isOptional == IsOptional(f)
        nextArgIsFlagValue ==
            Len(outArgs) > 0 /\ Len(outArgs[1]) > 0 /\ outArgs[1][1] # "-"
    IN IF Len(split) = 2
       THEN IF hasNoPrefix /\ flagIsBool
            THEN [value |-> split[2], outArgs |-> outArgs,
                  err |-> Err("CannotHaveValue", s, <<>>)]
            ELSE [value |-> split[2], outArgs |-> outArgs, err |-> NoErr]
       ELSE IF flagIsBool
       THEN [value |-> IF ~hasNoPrefix THEN <<"t", "r", "u", "e">>
                       ELSE <<"f", "a", "l", "s", "e">>,
             outArgs |-> outArgs, err |-> NoErr]
       ELSE IF isOptional
       THEN [value |-> <<>>, outArgs |-> outArgs, err |-> NoErr]
       ELSE IF nextArgIsFlagValue
               /\ (~flagIsBool \/ (flagIsBool /\ isBool(outArgs[1])))
       THEN [value |-> outArgs[1], outArgs |-> Tail(outArgs), err |-> NoErr]
       ELSE [value |-> <<>>, outArgs |-> outArgs,
             err |-> Err("NeedsArgument", s, <<>>)]

\* parseLongArg(s, args, fn) with fn the setter of Parse
parseLongArg(F, H, s, args) ==
    LET name == Drop(s, 2) IN
    IF Len(name) = 0 \/ name[1] = "-" \/ name[1] = "="
    THEN ParseStop(F, H, args, Err("BadSyntax", s, <<>>))
    ELSE LET hasNoPrefix == HasPrefix(name, <<"n", "o", "-">>)
             split == SplitN2(name)
             res == resolveLong(F, H, split[1], hasNoPrefix)
         IN IF ~res.exists \/ (res.flag # NilFlag /\ H[res.flag].ShorthandOnly)
            THEN unresolvedLong(F, H, s, split, res, args)
            ELSE LET v == longValue(H[res.flag], s, split, hasNoPrefix, args)
                 IN IF v.err # NoErr THEN ParseStop(F, H, v.outArgs, v.err)
                    ELSE setter(F, H, res.flag, v.value, v.outArgs)

\* the result of parseSingleShortArg that ends before the setter is reached
ShortStop(F, H, outShorts, outArgs, err) ==
    [fs |-> F, flag |-> H, outShorts |-> outShorts, outArgs |-> outArgs,
     err |-> err, calls |-> <<>>]

\* the branch of parseSingleShortArg taken when the rune is no registered
\* shorthand (lines 1183-1210): either the call ends (done) or a flag is found
\* by its one-character long name
unresolvedShort(F, H, shorthands, args, char) ==
    LET outShorts == Drop(shorthands, 1) IN
    IF char = "h" /\ ~F.DisableBuiltinHelp
    THEN [done |-> TRUE, flag |-> NilFlag,
          stop |-> ShortStop(F, H, outShorts, args, ErrHelp)]
    ELSE IF F.AllowUnknownFlags
    THEN IF Len(shorthands) > 2
         THEN [done |-> TRUE, flag |-> NilFlag,
               stop |-> ShortStop(addUnknownFlag(F, <<"-">> \o shorthands), H,
                                  <<>>, args, NoErr)]
         ELSE LET F1 == addUnknownFlag(F, <<"-">> \o RuneToString(char))
                  st == IF Len(outShorts) = 0 THEN stripUnknownFlagValue(F1, args)
                        ELSE [fs |-> F1, args |-> args]
              IN [done |-> TRUE, flag |-> NilFlag,
                  stop |-> ShortStop(st.fs, H, outShorts, st.args, NoErr)]
    ELSE LET id == Lookup(F, RuneToString(char))
         IN IF id = NilFlag
               \/ (H[id].Shorthand # NoRune /\ H[id].Shorthand # char)
            THEN [done |-> TRUE, flag |-> NilFlag,
                  stop |-> ShortStop(F, H, outShorts, args,
                                     Err("UnknownShorthand", shorthands, <<>>))]
            ELSE [done |-> FALSE, flag |-> id,
                  stop |-> ShortStop(F, H, outShorts, args, NoErr)]

\* shortValue that leaves the cluster as it was when the value comes from
\* elsewhere
shortValueKeepsCluster(F, f, shorthands, args) ==
    LET flagIsBool == IsBoolFlag(f)
        isOptional == IsOptional(f)
        nextArgIsFlagValue == Len(args) > 0 /\ Len(args[1]) > 0 /\ args[1][1] # "-"
        nextShortArgIsFlagValue ==
            IF Len(shorthands) > 1
            THEN ByteToRune(shorthands[2]) \notin DOMAIN F.shorthands
            ELSE FALSE
    IN IF Len(shorthands) > 2 /\ shorthands[2] = "="
       THEN [value |-> Drop(shorthands, 2), outShorts |-> <<>>, outArgs |-> args,
             err |-> NoErr]
       ELSE IF nextShortArgIsFlagValue
               /\ (~flagIsBool \/ (flagIsBool /\ isBool(Drop(shorthands, 1))))
       THEN [value |-> Drop(shorthands, 1), outShorts |-> <<>>, outArgs |-> args,
             err |-> NoErr]
       ELSE IF nextArgIsFlagValue /\ (~flagIsBool \/ (flagIsBool /\ isBool(args[1])))
       THEN [value |-> args[1], outShorts |-> shorthands,
             outArgs |-> Tail(args), err |-> NoErr]
       ELSE IF flagIsBool \/ isOptional
       THEN [value |-> <<>>, outShorts |-> shorthands, outArgs |-> args,
             err |-> NoErr]
       ELSE [value |-> <<>>, outShorts |-> shorthands, outArgs |-> args,
             err |-> Err("NeedsArgument", shorthands, <<>>)]

\* the value a resolved shorthand gets (lines 1212-1243): the value text, the
\* rest of the cluster, the arguments left, and the error that ends the parse
shortValue(F, f, shorthands, args) ==
    LET flagIsBool == IsBoolFlag(f)
        isOptional == IsOptional(f)
        nextArgIsFlagValue == Len(args) > 0 /\ Len(args[1]) > 0 /\ args[1][1] # "-"
        nextShortArgIsFlagValue ==
            IF Len(shorthands) > 1
            THEN ByteToRune(shorthands[2]) \notin DOMAIN F.shorthands
            ELSE FALSE
    IN IF Len(shorthands) > 2 /\ shorthands[2] = "="
       THEN [value |-> Drop(shorthands, 2), outShorts |-> <<>>, outArgs |-> args,
             err |-> NoErr]
       ELSE IF nextShortArgIsFlagValue
               /\ (~flagIsBool \/ (flagIsBool /\ isBool(Drop(shorthands, 1))))
       THEN [value |-> Drop(shorthands, 1), outShorts |-> <<>>, outArgs |-> args,
             err |-> NoErr]
       ELSE IF nextArgIsFlagValue /\ (~flagIsBool \/ (flagIsBool /\ isBool(args[1])))
       THEN [value |-> args[1], outShorts |-> Drop(shorthands, 1),
             outArgs |-> Tail(args), err |-> NoErr]
       ELSE IF flagIsBool \/ isOptional
       THEN [value |-> <<>>, outShorts |-> Drop(shorthands, 1), outArgs |-> args,
             err |-> NoErr]
       ELSE [value |-> <<>>, outShorts |-> Drop(shorthands, 1), outArgs |-> args,
             err |-> Err("NeedsArgument", shorthands, <<>>)]

\* parseSingleShortArg(shorthands, args, fn) with fn the setter of Parse
parseSingleShortArg(F, H, shorthands, args) ==
    LET char == DecodeRuneInString(shorthands).rune
        un == IF char \in DOMAIN F.shorthands
              THEN [done |-> FALSE, flag |-> F.shorthands[char],
                    stop |-> ShortStop(F, H, Drop(shorthands, 1), args, NoErr)]
              ELSE unresolvedShort(F, H, shorthands, args, char)
    IN IF un.done THEN un.stop
       ELSE LET v == shortValue(F, H[un.flag], shorthands, args)
            IN IF v.err # NoErr THEN ShortStop(F, H, v.outShorts, v.outArgs, v.err)
               ELSE LET r == setter(F, H, un.flag, v.value, v.outArgs)
                    IN [fs |-> r.fs, flag |-> r.flag, outShorts |-> v.outShorts,
                        outArgs |-> r.outArgs, err |-> r.err, calls |-> r.calls]

----------------------------------------------------------------------------
(* State: calls in progress, results, observations.                        *)

\* no Parse call in progress
Idle ==
    [state |-> "idle", fs |-> 0, argv |-> <<>>, args |-> <<>>,
     shorthands |-> <<>>, sargs |-> <<>>]

\* the outcome of a completed call: what it returned (err), whether it
\* panicked, the status handed to the exit function (-1: not called), and the
\* value adapters it invoked
Ret(op, r, name, value, id, err, panic, exit, calls) ==
    [op |-> op, fs |-> r, name |-> name, value |-> value, id |-> id, err |-> err,
     panic |-> panic, exit |-> exit, calls |-> calls]

NoExit == -1

NoHist ==
    [calls |-> <<>>, dashAt |-> 0, tok |-> 0,
     setLog |-> [r \in FlagSets |-> <<>>],
     nadds |-> 0, nsets |-> 0, nparses |-> [r \in FlagSets |-> 0], ncalls |-> 0]

\* the ids of the flags the adapter calls of a Set result set successfully
SetEvents(r) == IF r.err = NoErr THEN [i \in 1..Len(r.calls) |-> r.calls[i].flag] ELSE <<>>

\* the successful Set events among the setter invocations of a parse step
RECURSIVE SetterEvents(_, _, _)
SetterEvents(calls, err, i) ==
    IF i > Len(calls) THEN <<>>
    ELSE (IF err = NoErr
          THEN [j \in 1..Len(calls[i].set) |-> calls[i].set[j].flag] ELSE <<>>)
         \o SetterEvents(calls, err, i + 1)

----------------------------------------------------------------------------
(* Registry operations as calls.                                           *)

\* fs.AddFlag(flag); a panic is observed by a recovering caller
AddFlagCall(r, id) ==
    /\ pc.state = "idle"
    /\ hist.nadds < MaxAdds
    /\ LET a == AddFlag(fs[r], flag, id) IN
       /\ fs' = [fs EXCEPT ![r] = a.fs]
       /\ flag' = a.flag
       /\ ret' = Ret("AddFlag", r, flag[id].Name, <<>>, id, NoErr, a.panic, NoExit, <<>>)
    /\ hist' = [hist EXCEPT !.nadds = @ + 1, !.ncalls = @ + 1]
    /\ UNCHANGED pc

\* fs.RemoveFlag(name)
RemoveFlagCall(r, name) ==
    /\ pc.state = "idle"
    /\ fs' = [fs EXCEPT ![r] = RemoveFlag(fs[r], name)]
    /\ ret' = Ret("RemoveFlag", r, name, <<>>, NilFlag, NoErr, FALSE, NoExit, <<>>)
    /\ hist' = [hist EXCEPT !.ncalls = @ + 1]
    /\ UNCHANGED <<flag, pc>>

\* fs.AddFlagSet(newSet)
AddFlagSetCall(r, g) ==
    /\ pc.state = "idle"
    /\ r # g
    /\ LET a == AddFlagSet(fs[r], fs[g], flag) IN
       /\ fs' = [fs EXCEPT ![r] = a.fs, ![g] = a.newSet]
       /\ flag' = a.flag
       /\ ret' = Ret("AddFlagSet", r, <<>>, <<>>, NilFlag, NoErr, a.panic, NoExit, <<>>)
    /\ hist' = [hist EXCEPT !.ncalls = @ + 1]
    /\ UNCHANGED pc

\* fs.SetNormalizeFunc(n)
SetNormalizeFuncCall(r, n) ==
    /\ pc.state = "idle"
    /\ \E keys \in Orders(DOMAIN fs[r].formal) :
          LET a == SetNormalizeFunc(fs[r], flag, n, keys) IN
          /\ fs' = [fs EXCEPT ![r] = a.fs]
          /\ flag' = a.flag
    /\ ret' = Ret("SetNormalizeFunc", r, <<>>, <<>>, NilFlag, NoErr, FALSE, NoExit, <<>>)
    /\ hist' = [hist EXCEPT !.ncalls = @ + 1]
    /\ UNCHANGED pc

\* fs.Set(name, value)
SetCall(r, name, value) ==
    /\ pc.state = "idle"
    /\ hist.nsets < MaxSets
    /\ LET a == Set(fs[r], flag, name, value) IN
       /\ fs' = [fs EXCEPT ![r] = a.fs]
       /\ flag' = a.flag
       /\ ret' = Ret("Set", r, name, value, NilFlag, a.err, FALSE, NoExit, a.calls)
       /\ hist' = [hist EXCEPT !.nsets = @ + 1, !.ncalls = @ + 1,
                               !.setLog[r] = @ \o SetEvents(a)]
    /\ UNCHANGED pc

\* fs.Validate()
ValidateCall(r) ==
    /\ pc.state = "idle"
    /\ LET v == Validate(fs[r], flag) IN
       /\ fs' = [fs EXCEPT ![r] = v.fs]
       /\ ret' = Ret("Validate", r, <<>>, <<>>, NilFlag, v.err, FALSE, NoExit, <<>>)
    /\ hist' = [hist EXCEPT !.ncalls = @ + 1]
    /\ UNCHANGED <<flag, pc>>

----------------------------------------------------------------------------
(* Parse as a call in steps: parseAll, then one step per iteration of the  *)
(* loops of parseArgs and parseShortArg.                                   *)

\* parseAllReturn with the failure status for every error under ExitOnError
parseAllReturnAlwaysFailure(F, err) ==
    IF err = NoErr THEN [err |-> NoErr, panic |-> FALSE, exit |-> NoExit]
    ELSE IF F.errorHandling = "ContinueOnError"
    THEN [err |-> err, panic |-> FALSE, exit |-> NoExit]
    ELSE IF F.errorHandling = "ExitOnError"
    THEN [err |-> err, panic |-> FALSE, exit |-> 2]
    ELSE [err |-> err, panic |-> TRUE, exit |-> NoExit]

\* the end of parseAll (lines 1323-1337) for the error parseArgs returned
parseAllReturn(F, err) ==
    IF err = NoErr THEN [err |-> NoErr, panic |-> FALSE, exit |-> NoExit]
    ELSE IF F.errorHandling = "ContinueOnError"
    THEN [err |-> err, panic |-> FALSE, exit |-> NoExit]
    ELSE IF F.errorHandling = "ExitOnError"
    THEN [err |-> err, panic |-> FALSE, exit |-> IF err = ErrHelp THEN 0 ELSE 2]
    ELSE [err |-> err, panic |-> TRUE, exit |-> NoExit]

\* pc and ret when parseArgs returns err to parseAll
ParseReturns(r, F, err) ==
    LET out == parseAllReturn(F, err) IN
    /\ pc' = [Idle EXCEPT !.state = IF out.exit # NoExit THEN "exited" ELSE "idle"]
    /\ ret' = Ret("Parse", r, <<>>, pc.argv, NilFlag, out.err, out.panic, out.exit, <<>>)

\* fs.Parse(arguments): parseAll up to the call of parseArgs
ParseCall(r, arguments) ==
    /\ pc.state = "idle"
    /\ hist.nparses[r] < MaxParses
    /\ hist' = [hist EXCEPT !.nparses[r] = @ + 1, !.ncalls = @ + 1, !.calls = <<>>,
                            !.dashAt = 0, !.tok = 0]
    /\ flag' = flag
    /\ IF Len(arguments) = 0
       THEN LET v == Validate([fs[r] EXCEPT !.parsed = TRUE], flag) IN
            /\ fs' = [fs EXCEPT ![r] = v.fs]
            /\ pc' = pc
            /\ ret' = Ret("Parse", r, <<>>, arguments, NilFlag, v.err, FALSE, NoExit, <<>>)
       ELSE /\ fs' = [fs EXCEPT ![r].parsed = TRUE, ![r].args = <<>>]
            /\ pc' = [Idle EXCEPT !.state = "args", !.fs = r, !.argv = arguments,
                                  !.args = arguments]
            /\ ret' = Ret("Parse", r, <<>>, arguments, NilFlag, NoErr, FALSE, NoExit, <<>>)

\* terminator with the terminator index taken after the remaining tokens
\* were appended
terminatorIndexAfterAppend(F, args) ==
    [F EXCEPT !.argsLenAtDash = Len(F.args \o args), !.args = F.args \o args]

\* the terminator branch of parseArgs (lines 1286-1290)
terminator(F, args) ==
    [F EXCEPT !.argsLenAtDash = Len(F.args), !.args = F.args \o args]

\* positional with scanning continued in either mode
positionalKeepsScanning(F, s, args) ==
    [fs |-> [F EXCEPT !.args = Append(F.args, s)], return |-> FALSE]

\* the positional branch of parseArgs (lines 1275-1283): the registry and
\* whether parseArgs returns nil at once
positional(F, s, args) ==
    IF ~F.interspersed
    THEN [fs |-> [F EXCEPT !.args = Append(F.args, s) \o args], return |-> TRUE]
    ELSE [fs |-> [F EXCEPT !.args = Append(F.args, s)], return |-> FALSE]

\* one iteration of the loop of parseArgs (lines 1272-1298)
ParseArgsStep ==
    /\ pc.state = "args"
    /\ Len(pc.args) > 0
    /\ LET r == pc.fs
           s == Head(pc.args)
           args == Tail(pc.args)
           tok == Len(pc.argv) - Len(pc.args) + 1
       IN IF Len(s) = 0 \/ s[1] # "-" \/ Len(s) = 1
          THEN \E p \in {positional(fs[r], s, args)} :
               /\ fs' = [fs EXCEPT ![r] = p.fs]
               /\ flag' = flag
               /\ hist' = [hist EXCEPT !.tok = tok]
               /\ IF p.return THEN ParseReturns(r, p.fs, NoErr)
                  ELSE pc' = [pc EXCEPT !.args = args] /\ ret' = ret
          ELSE IF s[2] = "-"
          THEN IF Len(s) = 2
               THEN /\ fs' = [fs EXCEPT ![r] = terminator(fs[r], args)]
                    /\ flag' = flag
                    /\ hist' = [hist EXCEPT !.tok = tok, !.dashAt = tok]
                    /\ pc' = [pc EXCEPT !.state = "validate", !.args = <<>>]
                    /\ ret' = ret
               ELSE \E a \in {parseLongArg(fs[r], flag, s, args)} :
                    /\ fs' = [fs EXCEPT ![r] = a.fs]
                    /\ flag' = a.flag
                    /\ hist' = [hist EXCEPT
                                  !.tok = tok,
                                  !.calls = @ \o [i \in 1..Len(a.calls) |->
                                                     [flag |-> a.calls[i].flag,
                                                      value |-> a.calls[i].value,
                                                      tok |-> tok]],
                                  !.setLog[r] = @ \o SetterEvents(a.calls, a.err, 1)]
                    /\ IF a.err # NoErr THEN ParseReturns(r, a.fs, a.err)
                       ELSE pc' = [pc EXCEPT !.args = a.outArgs] /\ ret' = ret
          ELSE /\ pc' = [pc EXCEPT !.state = "shorts", !.shorthands = Drop(s, 1),
                                   !.sargs = args, !.args = args]
               /\ hist' = [hist EXCEPT !.tok = tok]
               /\ UNCHANGED <<fs, flag, ret>>

\* one iteration of the loop of parseShortArg (lines 1261-1266): every call
\* of parseSingleShortArg gets the args parseShortArg was called with
ParseShortArgStep ==
    /\ pc.state = "shorts"
    /\ LET r == pc.fs IN
       \E a \in {parseSingleShortArg(fs[r], flag, pc.shorthands, pc.sargs)} :
          /\ fs' = [fs EXCEPT ![r] = a.fs]
          /\ flag' = a.flag
          /\ hist' = [hist EXCEPT
                        !.calls = @ \o [i \in 1..Len(a.calls) |->
                                           [flag |-> a.calls[i].flag,
                                            value |-> a.calls[i].value,
                                            tok |-> hist.tok]],
                        !.setLog[r] = @ \o SetterEvents(a.calls, a.err, 1)]
          /\ IF a.err # NoErr THEN ParseReturns(r, a.fs, a.err)
             ELSE /\ ret' = ret
                  /\ IF Len(a.outShorts) > 0
                     THEN pc' = [pc EXCEPT !.shorthands = a.outShorts, !.args = a.outArgs]
                     ELSE pc' = [pc EXCEPT !.state = "args", !.shorthands = <<>>,
                                           !.sargs = <<>>, !.args = a.outArgs]

\* the end of parseArgs (line 1300): Validate, then the end of parseAll
ParseValidateStep ==
    /\ IF pc.state = "validate" THEN TRUE
       ELSE pc.state = "args" /\ Len(pc.args) = 0
    /\ LET r == pc.fs IN
       \E v \in {Validate(fs[r], flag)} :
          /\ fs' = [fs EXCEPT ![r] = v.fs]
          /\ ParseReturns(r, v.fs, v.err)
    /\ UNCHANGED <<flag, hist>>

----------------------------------------------------------------------------
(* Specifications.                                                         *)

\* the argument vectors over the tokens T of at most n tokens
ArgVectors(T, n) == UNION {[1..k -> T] : k \in 0..n}

\* the registry after AddFlag of the flags ids[i..], in order
RECURSIVE Register(_, _, _, _)
Register(F, H, ids, i) ==
    IF i > Len(ids) THEN [fs |-> F, flag |-> H]
    ELSE LET a == AddFlag(F, H, ids[i]) IN Register(a.fs, a.flag, ids, i + 1)

NewHeap == [id \in FlagIds |-> NewFlag(FlagDecl[id])]

NewRet == Ret("NewFlagSet", 0, <<>>, <<>>, NilFlag, NoErr, FALSE, NoExit, <<>>)

\* the flags registered before parsing, in registration order
ParseFlags == <<1, 2, 3, 4, 5>>

\* the command-line tokens of the parser specification
ParseTokens ==
    { <<>>, <<"x">>, <<"-">>, <<"-", "-">>, <<"5">>,
      <<"-", "-", "v", "b">>, <<"-", "-", "n", "o", "-", "v", "b">>,
      <<"-", "-", "n", "o", "-", "q">>, <<"-", "-", "n", "o", "-", "n", "o", "-", "q">>,
      <<"-", "-", "c", "-", "t">>, <<"-", "-", "c", "-", "t", "=", "5">>,
      <<"-", "-", "s", "o">>, <<"-", "-", "o", "p">>,
      <<"-", "-", "h", "e", "l", "p">>, <<"-", "-", "z", "z">>,
      <<"-", "v">>, <<"-", "c">>, <<"-", "v", "c", "5">>, <<"-", "h">>,
      <<"-", "v", "h">> }

\* a registry with ParseFlags registered and its public options set
InitParse ==
    /\ \E inter \in BOOLEAN, unk \in BOOLEAN, req \in BOOLEAN, nohelp \in BOOLEAN :
          LET a == Register(NewFlagSet("ContinueOnError"), NewHeap, ParseFlags, 1) IN
          /\ fs = [r \in FlagSets |->
                     IF r = 1
                     THEN [a.fs EXCEPT !.interspersed = inter,
                                       !.AllowUnknownFlags = unk,
                                       !.AllowRequiredFlags = req,
                                       !.DisableBuiltinHelp = nohelp]
                     ELSE NewFlagSet("ContinueOnError")]
          /\ flag = a.flag
    /\ pc = Idle
    /\ ret = NewRet
    /\ hist = NoHist

\* the first Parse of a registry, on any argument vector
FirstParse ==
    /\ ~fs[1].parsed
    /\ \E arguments \in ArgVectors(ParseTokens, MaxArgs) : ParseCall(1, arguments)

NextParse ==
    \/ FirstParse
    \/ ParseArgsStep
    \/ ParseShortArgStep
    \/ ParseValidateStep

SpecParse == InitParse /\ [][NextParse]_vars

\* the flags the registry specifications register: 3 and 6 share the
\* shorthand `c`, and their names differ by `-` and `_`
RegFlags == {1, 3, 6}

RegNames == {FlagDecl[id].Name : id \in RegFlags}

\* the names and the texts handed to Set
SetNames == RegNames \cup {<<"z", "z">>}

SetValues == {<<"1">>, <<"x">>}

\* the command-line tokens of the registry specification
RegTokens == {<<"-", "-", "c", "-", "t", "=", "5">>, <<"-", "v">>, <<"x">>}

\* two registries as NewFlagSet leaves them, with the public options SortFlags
\* and AllowRequiredFlags as the caller set them; registry 2 is the newSet that
\* the caller fills and hands to AddFlagSet of registry 1
Init ==
    /\ \E sort \in BOOLEAN, req \in BOOLEAN :
          fs = [r \in FlagSets |->
                  [NewFlagSet("ContinueOnError") EXCEPT !.SortFlags = sort,
                                                        !.AllowRequiredFlags = req]]
    /\ flag = NewHeap
    /\ pc = Idle
    /\ ret = NewRet
    /\ hist = NoHist

\* the caller has calls left
Budget == hist.ncalls < MaxCalls

Next ==
    \/ Budget /\ \E r \in FlagSets, id \in RegFlags : AddFlagCall(r, id)
    \/ Budget /\ \E name \in RegNames : RemoveFlagCall(1, name)
    \/ Budget /\ AddFlagSetCall(1, 2)
    \/ Budget /\ \E n \in Normalizers : SetNormalizeFuncCall(1, n)
    \/ Budget /\ \E name \in SetNames, value \in SetValues : SetCall(1, name, value)
    \/ Budget /\ ValidateCall(1)
    \/ Budget /\ ~fs[1].parsed /\ \E arguments \in ArgVectors(RegTokens, MaxRegArgs) :
                                     ParseCall(1, arguments)
    \/ ParseArgsStep
    \/ ParseShortArgStep
    \/ ParseValidateStep

Spec == Init /\ [][Next]_vars

\* one registry as NewFlagSet leaves it
InitSet ==
    /\ fs = [r \in FlagSets |-> NewFlagSet("ContinueOnError")]
    /\ flag = NewHeap
    /\ pc = Idle
    /\ ret = NewRet
    /\ hist = NoHist

\* registrations and Set calls on one registry
NextSet ==
    \/ \E id \in RegFlags : AddFlagCall(1, id)
    \/ \E name \in SetNames, value \in SetValues : SetCall(1, name, value)

SpecSet == InitSet /\ [][NextSet]_vars

\* the error-handling policies NewFlagSet accepts
ErrorHandlings == {"ContinueOnError", "ExitOnError", "PanicOnError"}

\* the command-line tokens of the policy specification: an unknown flag, the
\* help flag, a flag without its argument, with an invalid and with a valid
\* argument, a shorthand and a positional argument
PolicyTokens ==
    { <<"-", "-", "z", "z">>, <<"-", "-", "h", "e", "l", "p">>,
      <<"-", "-", "c", "-", "t">>, <<"-", "-", "c", "-", "t", "=", "x">>,
      <<"-", "-", "c", "-", "t", "=", "5">>, <<"-", "v">>, <<"x">> }

\* a registry with ParseFlags registered, under each error-handling policy
InitPolicy ==
    /\ \E eh \in ErrorHandlings, unk \in BOOLEAN, req \in BOOLEAN :
          LET a == Register(NewFlagSet(eh), NewHeap, ParseFlags, 1) IN
          /\ fs = [r \in FlagSets |->
                     IF r = 1
                     THEN [a.fs EXCEPT !.AllowUnknownFlags = unk,
                                       !.AllowRequiredFlags = req]
                     ELSE NewFlagSet(eh)]
          /\ flag = a.flag
    /\ pc = Idle
    /\ ret = NewRet
    /\ hist = NoHist

\* the first Parse of the registry, on any vector of policy tokens
FirstPolicyParse ==
    /\ ~fs[1].parsed
    /\ \E arguments \in ArgVectors(PolicyTokens, MaxPolicyArgs) : ParseCall(1, arguments)

NextPolicy ==
    \/ FirstPolicyParse
    \/ ParseArgsStep
    \/ ParseShortArgStep
    \/ ParseValidateStep

SpecPolicy == InitPolicy /\ [][NextPolicy]_vars

\* the command-line tokens of the unknown-flag specification: an unregistered
\* long flag without and with `=value`, an unregistered shorthand, the
\* shorthand-only flag `so` in long syntax, a registered shorthand and two
\* tokens that do not look like flags
UnknownTokens ==
    { <<"-", "-", "z", "z">>, <<"-", "-", "z", "z", "=", "x">>, <<"-", "z">>,
      <<"-", "-", "s", "o">>, <<"-", "-", "s", "o", "=", "5">>, <<"-", "v">>,
      <<"x">>, <<"5">> }

\* a ContinueOnError registry with ParseFlags registered, with and without
\* the UnknownFlags and RequiredFlags allowances
InitUnknown ==
    /\ \E unk \in BOOLEAN, req \in BOOLEAN :
          LET a == Register(NewFlagSet("ContinueOnError"), NewHeap, ParseFlags, 1) IN
          /\ fs = [r \in FlagSets |->
                     IF r = 1
                     THEN [a.fs EXCEPT !.AllowUnknownFlags = unk,
                                       !.AllowRequiredFlags = req]
                     ELSE NewFlagSet("ContinueOnError")]
          /\ flag = a.flag
    /\ pc = Idle
    /\ ret = NewRet
    /\ hist = NoHist

\* the first Parse of the registry, on any vector of unknown-flag tokens
FirstUnknownParse ==
    /\ ~fs[1].parsed
    /\ \E arguments \in ArgVectors(UnknownTokens, MaxUnknownArgs) : ParseCall(1, arguments)

NextUnknown ==
    \/ FirstUnknownParse
    \/ ParseArgsStep
    \/ ParseShortArgStep
    \/ ParseValidateStep

SpecUnknown == InitUnknown /\ [][NextUnknown]_vars

\* the command-line tokens of the shorthand specification: `-f=v` forms with
\* an empty and a non-empty value, clusters whose second character is a
\* registered shorthand (`-vc5`, `-cv`) or is not (`-vx`), a single
\* shorthand, and two tokens that do not look like flags
ShortTokens ==
    { <<"-", "c", "=", "5">>, <<"-", "c", "=">>, <<"-", "v", "=">>,
      <<"-", "o", "=">>, <<"-", "o", "=", "x">>,
      <<"-", "v", "c", "5">>, <<"-", "v", "x">>, <<"-", "c", "v">>, <<"-", "v">>,
      <<"0">>, <<"5">> }

\* the first Parse of the registry, on any vector of shorthand tokens
FirstShortParse ==
    /\ ~fs[1].parsed
    /\ \E arguments \in ArgVectors(ShortTokens, MaxShortArgs) : ParseCall(1, arguments)

NextShort ==
    \/ FirstShortParse
    \/ ParseArgsStep
    \/ ParseShortArgStep
    \/ ParseValidateStep

\* Parse of shorthand tokens on the registries of InitUnknown
SpecShort == InitUnknown /\ [][NextShort]_vars

\* the command-line tokens of the repeated-parse specification: the
\* terminator, a positional argument and a shorthand
ReparseTokens == { <<"-", "-">>, <<"x">>, <<"-", "v">> }

\* a Parse of the registry, the first one or a later one
Reparse ==
    /\ pc.state = "idle"
    /\ \E arguments \in ArgVectors(ReparseTokens, MaxReparseArgs) : ParseCall(1, arguments)

NextReparse ==
    \/ Reparse
    \/ ParseArgsStep
    \/ ParseShortArgStep
    \/ ParseValidateStep

\* up to MaxParses Parse calls on the registries of InitUnknown
SpecReparse == InitUnknown /\ [][NextReparse]_vars

----------------------------------------------------------------------------
(* Properties of the parser, checked under SpecParse.                      *)

\* the flags registered in registry r
Registered(r) == {fs[r].formal[k] : k \in DOMAIN fs[r].formal}

\* the argument vector of the Parse call in progress or just completed
CurArgv == IF pc.state \in {"idle", "exited"} THEN ret.value ELSE pc.argv

\* a Parse call has returned to its caller
ParseDone == ret.op = "Parse" /\ pc.state = "idle"

\* the token the last step of parseArgs took from the argument vector
CurToken == CurArgv[hist.tok]

LongToken(name) == <<"-", "-">> \o name

NoToken(name) == <<"-", "-", "n", "o", "-">> \o name

C2_NegationWhateverTheName ==
    \A id \in Registered(1) :
        (IsBoolFlag(flag[id]) /\ flag[id].AddNegative /\ hist.tok > 0) =>
            /\ CurToken = LongToken(flag[id].Name)
                  => (flag[id].Value = TRUE /\ flag[id].Changed)
            /\ CurToken = NoToken(flag[id].Name)
                  => (flag[id].Value = FALSE /\ flag[id].Changed)

\* the step of parseArgs about to be taken parses `--<name>` of flag id as the
\* last token
BareLongLast(id) ==
    /\ pc.state = "args"
    /\ Len(pc.args) = 1
    /\ Head(pc.args) = LongToken(flag[id].Name)

\* the outcome C3 states for that step
NeedsArgumentOutcome ==
    /\ pc'.state = "idle"
    /\ ret'.op = "Parse"
    /\ ret'.err.kind = "NeedsArgument"
    /\ hist'.calls = hist.calls
    /\ flag' = flag

\* C3 as stated: for every registered flag that is neither boolean nor
\* optional-argument, parsing its bare long form as the last token ends the
\* parse with 'flag needs an argument', without a setter invocation and with
\* the flag as it was.
C3_BareLongNeedsArgument ==
    [][\A id \in Registered(1) :
          (~IsBoolFlag(flag[id]) /\ ~IsOptional(flag[id]) /\ BareLongLast(id))
              => NeedsArgumentOutcome]_vars

\* C3 as amended: the same for the flags that are not shorthand-only.
C3_BareLongNeedsArgumentUnlessShorthandOnly ==
    [][\A id \in Registered(1) :
          (~IsBoolFlag(flag[id]) /\ ~IsOptional(flag[id])
             /\ ~flag[id].ShorthandOnly /\ BareLongLast(id))
              => NeedsArgumentOutcome]_vars

\* `--c-t` was the last token and the parse ended with 'needs an argument'
C3_Witness ==
    /\ ParseDone
    /\ hist.tok = Len(CurArgv)
    /\ hist.tok > 0
    /\ CurToken = LongToken(flag[3].Name)
    /\ ret.err.kind = "NeedsArgument"
    /\ ~flag[3].Changed

\* C4: under ContinueOnError without the RequiredFlags allowance, a Parse call
\* that returns while a registered required flag is unchanged returns an
\* error (MissingFlags unless another error ended it), in either mode.
C4_MissingRequiredReported ==
    (/\ ParseDone
     /\ fs[1].parsed
     /\ fs[1].errorHandling = "ContinueOnError"
     /\ ~fs[1].AllowRequiredFlags
     /\ \E id \in Registered(1) : flag[id].Required /\ ~flag[id].Changed)
        => ret.err # NoErr

\* the token the next step of parseArgs takes names `help` as a long flag
LongHelpNext ==
    /\ pc.state = "args"
    /\ Len(pc.args) > 0
    /\ Len(Head(pc.args)) > 2
    /\ SubSeq(Head(pc.args), 1, 2) = <<"-", "-">>
    /\ SplitN2(Drop(Head(pc.args), 2))[1] = <<"h", "e", "l", "p">>
    /\ Lookup(fs[pc.fs], <<"h", "e", "l", "p">>) = NilFlag

\* the next step of parseShortArg resolves the cluster character `h`
ShortHelpNext ==
    /\ pc.state = "shorts"
    /\ DecodeRuneInString(pc.shorthands).rune = "h"
    /\ ShorthandLookup(fs[pc.fs], "h") = NilFlag

\* C10: with built-in help enabled and no flag `help` (shorthand `h`)
\* registered, the step that parses `--help` (the cluster character `h`) ends
\* the parse with ErrHelp and records no unknown flag, with or without the
\* UnknownFlags allowance; with built-in help disabled the step records the
\* token as unknown under the allowance and ends the parse with an unknown
\* flag error without it.
C10_BuiltinHelp ==
    [][(LongHelpNext \/ ShortHelpNext) =>
          LET F == fs[pc.fs] IN
          IF ~F.DisableBuiltinHelp
          THEN /\ ret'.err = ErrHelp
               /\ pc'.state = "idle"
               /\ fs'[pc.fs].unknownFlags = F.unknownFlags
          ELSE IF F.AllowUnknownFlags
          THEN /\ ret'.err = NoErr
               /\ pc'.state # "idle"
               /\ Len(fs'[pc.fs].unknownFlags) > Len(F.unknownFlags)
               /\ fs'[pc.fs].unknownFlags[Len(F.unknownFlags) + 1] =
                     (IF LongHelpNext THEN Head(pc.args) ELSE <<"-", "h">>)
          ELSE /\ ret'.err.kind \in {"UnknownFlag", "UnknownShorthand"}
               /\ pc'.state = "idle"]_vars

\* `--help` ended a parse with ErrHelp although unknown flags are allowed
C10_Witness ==
    /\ ParseDone
    /\ ret.err = ErrHelp
    /\ fs[1].AllowUnknownFlags
    /\ hist.tok > 0
    /\ CurToken = <<"-", "-", "h", "e", "l", "p">>

----------------------------------------------------------------------------
(* Properties of the registry, checked under Spec and SpecSet.             *)

\* the registered flags of registry r that are required and not changed
MissingRequired(r) == {id \in Registered(r) : flag[id].Required /\ ~flag[id].Changed}

\* C5: a Validate call that has just returned, without the RequiredFlags
\* allowance, returned one MissingFlags error naming exactly the registered
\* flags that are required and unchanged, each once, and no error when there
\* is none; with the allowance it returned no error.
C5_ValidateNamesExactlyMissing ==
    ret.op = "Validate" =>
        LET r == ret.fs IN
        IF fs[r].AllowRequiredFlags \/ MissingRequired(r) = {}
        THEN ret.err = NoErr
        ELSE /\ ret.err.kind = "MissingFlags"
             /\ Range(ret.err.flags) = MissingRequired(r)
             /\ Len(ret.err.flags) = Cardinality(MissingRequired(r))

\* C6: AddFlag rejects a duplicate name or shorthand when the flag is
\* registered, so that in no reachable state two flags registered in one
\* registry share a shorthand.
C6_NoSharedShorthand ==
    \A r \in FlagSets : \A a, b \in Registered(r) :
        (a # b /\ flag[a].Shorthand # NoRune) => flag[a].Shorthand # flag[b].Shorthand

\* C7: in every registry formal and orderedFormal have the same number of
\* entries, and every entry of shorthands is a flag present in formal.
C7_FormalOrderedShorthandsAgree ==
    \A r \in FlagSets :
        /\ Cardinality(DOMAIN fs[r].formal) = Len(fs[r].orderedFormal)
        /\ \A c \in DOMAIN fs[r].shorthands : fs[r].shorthands[c] \in Registered(r)

\* the flags of a sequence of Set events, each at its first occurrence
RECURSIVE FirstOccurrences(_, _)
FirstOccurrences(log, seen) ==
    IF Len(log) = 0 THEN <<>>
    ELSE IF Head(log) \in seen THEN FirstOccurrences(Tail(log), seen)
    ELSE <<Head(log)>> \o FirstOccurrences(Tail(log), seen \cup {Head(log)})

\* C8: after any sequence of Set calls on a registry, every flag a Set call
\* set successfully is Changed, orderedActual lists each such flag once in
\* the order of its first successful Set, and actual has as many entries.
C8_SetRecordsFirstSetOrder ==
    LET log == hist.setLog[1] IN
    /\ \A i \in 1..Len(log) : flag[log[i]].Changed
    /\ fs[1].orderedActual = FirstOccurrences(log, {})
    /\ Cardinality(DOMAIN fs[1].actual) = Len(fs[1].orderedActual)
    /\ {fs[1].actual[k] : k \in DOMAIN fs[1].actual} = Range(log)

\* two flags were set, the second one first, and the first one twice
C8_Witness ==
    /\ hist.setLog[1] = <<3, 1, 3>>
    /\ fs[1].orderedActual = <<3, 1>>
    /\ ret.op = "Set"
    /\ ret.err = NoErr

\* C9: a Set call on a name whose normalized form is not a key of formal
\* returns an UnknownFlag error for that name, invokes no value adapter, and
\* leaves every flag (value, Changed) and the registry (actual,
\* orderedActual) as they were.
C9_SetUnknownChangesNothing ==
    [][(/\ ret'.op = "Set"
        /\ hist'.nsets = hist.nsets + 1
        /\ normalizeFlagName(fs[ret'.fs], ret'.name) \notin DOMAIN fs[ret'.fs].formal)
          => /\ ret'.err = NewUnknownFlagError(ret'.name)
             /\ ret'.calls = <<>>
             /\ flag' = flag
             /\ fs' = fs
             /\ hist'.setLog = hist.setLog]_vars

\* Set of an unregistered name returned UnknownFlag on a registry that holds
\* a changed flag
C9_Witness ==
    /\ ret.op = "Set"
    /\ ret.name = <<"z", "z">>
    /\ ret.err.kind = "UnknownFlag"
    /\ ret.calls = <<>>
    /\ \E id \in Registered(ret.fs) : flag[id].Changed

----------------------------------------------------------------------------
(* Properties of the error-handling policy, checked under SpecPolicy.      *)

\* a Parse call has ended: it returned, panicked, or the process exited
ParseEnded == ret.op = "Parse" /\ pc.state \in {"idle", "exited"}

\* the error that ended the Parse call was handled as the policy of the
\* registry prescribes
HandledByPolicy ==
    LET eh == fs[ret.fs].errorHandling IN
    IF eh = "ExitOnError"
    THEN /\ pc.state = "exited"
         /\ ret.exit = (IF ret.err = ErrHelp THEN 0 ELSE 2)
         /\ ~ret.panic
    ELSE IF eh = "PanicOnError"
    THEN /\ ret.panic
         /\ ret.exit = NoExit
    ELSE /\ pc.state = "idle"
         /\ ~ret.panic
         /\ ret.exit = NoExit

\* C11: when a Parse call on a non-empty argument vector ends in an error,
\* under ExitOnError the exit function is called with status 0 if the error
\* is ErrHelp and with status 2 otherwise, under ContinueOnError the error is
\* returned, and under PanicOnError the call panics with it.
C11_NonEmptyParseErrorFollowsPolicy ==
    (ParseEnded /\ Len(ret.value) > 0 /\ ret.err # NoErr) => HandledByPolicy

\* `--help` ended a parse under ExitOnError and the exit status was 0
C11_Witness ==
    /\ ParseEnded
    /\ fs[1].errorHandling = "ExitOnError"
    /\ hist.tok > 0
    /\ CurToken = <<"-", "-", "h", "e", "l", "p">>
    /\ ret.err = ErrHelp
    /\ ret.exit = 0
    /\ pc.state = "exited"

\* C12: for every argument vector, the empty one included, an error that
\* ends the Parse call is handled by the error-handling policy of the
\* registry: under ExitOnError and PanicOnError it is never returned to the
\* caller.
C12_EveryParseErrorFollowsPolicy ==
    (ParseEnded /\ ret.err # NoErr) => HandledByPolicy

----------------------------------------------------------------------------
(* Properties of unknown flags, checked under SpecUnknown.                 *)

\* a token that does not look like a flag to stripUnknownFlagValue
NotFlagLike(t) == Len(t) = 0 \/ t[1] # "-"

\* an unregistered long flag without `=value`
Mystery == <<"-", "-", "z", "z">>

\* a Parse call of `--zz foo bar` has returned, foo and bar not flag-like,
\* with the UnknownFlags allowance (and no required flag to miss)
MysteryParsed ==
    /\ ParseDone
    /\ fs[1].AllowUnknownFlags
    /\ fs[1].AllowRequiredFlags
    /\ Len(CurArgv) = 3
    /\ CurArgv[1] = Mystery
    /\ NotFlagLike(CurArgv[2])
    /\ NotFlagLike(CurArgv[3])

\* C13 as stated: with the UnknownFlags allowance, Parse of `--zz foo bar`
\* returns no error, foo is swallowed and not positional, bar is the one
\* positional argument, and GetUnknownFlags() is [`--zz`].
C13_MysterySwallowsValue ==
    MysteryParsed =>
        /\ ret.err = NoErr
        /\ fs[1].args = <<CurArgv[3]>>
        /\ fs[1].unknownFlags = <<Mystery>>

\* C13 as amended: the same, but GetUnknownFlags() is [`--zz`, foo]: the
\* swallowed value is recorded after the flag token.
C13_MysterySwallowsAndRecordsValue ==
    MysteryParsed =>
        /\ ret.err = NoErr
        /\ fs[1].args = <<CurArgv[3]>>
        /\ fs[1].unknownFlags = <<Mystery, CurArgv[2]>>

\* `--zz x 5` was parsed: 5 is positional, `--zz` and x are recorded
C13_Witness ==
    /\ MysteryParsed
    /\ CurArgv = <<Mystery, <<"x">>, <<"5">>>>
    /\ fs[1].args = <<<<"5">>>>
    /\ fs[1].unknownFlags = <<Mystery, <<"x">>>>
    /\ ret.err = NoErr

\* C14: with the UnknownFlags allowance, when an unknown flag (long without
\* `=value`, or a single unknown shorthand) is the second-to-last token and
\* the last token does not start with `-`, the last token is not lost: it is
\* among the positional arguments when Parse returns.
C14_LastTokenNotLost ==
    (/\ ParseDone
     /\ fs[1].AllowUnknownFlags
     /\ Len(CurArgv) >= 2
     /\ CurArgv[Len(CurArgv) - 1] \in {Mystery, <<"-", "z">>}
     /\ NotFlagLike(CurArgv[Len(CurArgv)]))
        => CurArgv[Len(CurArgv)] \in Range(fs[1].args)

\* the token the next step of parseArgs takes names a registered
\* shorthand-only flag in long syntax, `--<name>` or `--<name>=v`
ShorthandOnlyLongNext ==
    /\ pc.state = "args"
    /\ Len(pc.args) > 0
    /\ Len(Head(pc.args)) > 2
    /\ SubSeq(Head(pc.args), 1, 2) = <<"-", "-">>
    /\ LET id == Lookup(fs[pc.fs], SplitN2(Drop(Head(pc.args), 2))[1])
       IN id # NilFlag /\ flag[id].ShorthandOnly

\* C15: the step that parses a shorthand-only flag in long syntax never
\* invokes a setter and leaves every flag as it was, and without the
\* UnknownFlags allowance it ends the parse with an UnknownFlag error and
\* records nothing in unknownFlags.
C15_ShorthandOnlyLongIsUnknown ==
    [][ShorthandOnlyLongNext =>
          /\ hist'.calls = hist.calls
          /\ flag' = flag
          /\ ~fs[pc.fs].AllowUnknownFlags =>
                /\ pc'.state = "idle"
                /\ ret'.err.kind = "UnknownFlag"
                /\ fs'[pc.fs].unknownFlags = fs[pc.fs].unknownFlags]_vars

----------------------------------------------------------------------------
(* Properties of shorthand clusters, checked under SpecShort.              *)

\* the next step of parseShortArg resolves the first character of the
\* cluster to a registered shorthand
ResolvedShortNext ==
    /\ pc.state = "shorts"
    /\ DecodeRuneInString(pc.shorthands).rune \in DOMAIN fs[pc.fs].shorthands

\* the flag that step resolves
ShortFlagNext == fs[pc.fs].shorthands[DecodeRuneInString(pc.shorthands).rune]

\* the setter invocations the step being taken adds
NewCalls == SubSeq(hist'.calls, Len(hist.calls) + 1, Len(hist'.calls))

\* the next step parses the token `-f=v` from its start, f a registered
\* shorthand of a flag that also has a long form
ShortEqualsNext ==
    /\ ResolvedShortNext
    /\ Len(pc.shorthands) >= 2
    /\ pc.shorthands[2] = "="
    /\ Len(pc.shorthands) = Len(CurToken) - 1
    /\ ~flag[ShortFlagNext].ShorthandOnly

\* what parseLongArg does in the same state with `--N=v`
LongEqualsOutcome ==
    parseLongArg(fs[pc.fs], flag,
                 LongToken(flag[ShortFlagNext].Name) \o Drop(pc.shorthands, 1),
                 pc.sargs)

\* C16: the step that parses `-f=v`, for every value text v including the
\* empty one, leaves the flags (value, Changed), the set flags, the
\* arguments still to parse and the error outcome as parsing `--N=v` in the
\* same state does, and ends the cluster.
C16_ShortEqualsLikeLongEquals ==
    [][ShortEqualsNext =>
          LET b == LongEqualsOutcome IN
          /\ flag' = b.flag
          /\ fs'[pc.fs].actual = b.fs.actual
          /\ IF b.err # NoErr
             THEN pc'.state = "idle" /\ ret'.err = b.err
             ELSE pc'.state = "args" /\ pc'.args = b.outArgs]_vars

\* the next step resolves a shorthand that is followed in its cluster by a
\* character other than `=`
ClusterGoesOnNext ==
    /\ ResolvedShortNext
    /\ Len(pc.shorthands) > 1
    /\ pc.shorthands[2] # "="

\* C17: in the step that resolves a shorthand followed in its cluster by a
\* character other than `=`: if that character is not a registered shorthand
\* the setter gets the whole remainder and the cluster ends, unless the flag
\* is boolean and the remainder is no boolean literal, and then the setter
\* gets the empty value and the remainder is parsed as further shorthands;
\* if that character is a registered shorthand the setter never gets the
\* remainder, which is parsed as further shorthands.
C17_ClusterRemainder ==
    [][ClusterGoesOnNext =>
          LET id == ShortFlagNext
              rest == Drop(pc.shorthands, 1)
              nextIsShorthand == ByteToRune(rest[1]) \in DOMAIN fs[pc.fs].shorthands
          IN IF ~nextIsShorthand
             THEN IF ~IsBoolFlag(flag[id]) \/ isBool(rest)
                  THEN /\ Len(NewCalls) = 1
                       /\ NewCalls[1].flag = id
                       /\ NewCalls[1].value = rest
                       /\ pc'.state # "shorts"
                  ELSE /\ Len(NewCalls) = 1
                       /\ NewCalls[1].flag = id
                       /\ NewCalls[1].value = <<>>
                       /\ pc'.state = "shorts"
                       /\ pc'.shorthands = rest
             ELSE /\ \A i \in 1..Len(NewCalls) : NewCalls[i].value # rest
                  /\ pc'.state = "shorts" => pc'.shorthands = rest]_vars

\* the step being taken handed the token that follows the cluster to the
\* setter of the shorthand it resolved (a text the cluster itself does not
\* supply as a value)
TookFollowingToken ==
    /\ Len(pc.sargs) > 0
    /\ Len(NewCalls) = 1
    /\ NewCalls[1].value = Head(pc.sargs)
    /\ Head(pc.sargs) # Drop(pc.shorthands, 1)
    /\ ~(/\ Len(pc.shorthands) > 2
         /\ pc.shorthands[2] = "="
         /\ Head(pc.sargs) = Drop(pc.shorthands, 2))

\* C18: a step that resolves a shorthand takes the token that follows the
\* cluster as its value only when no character remains in the cluster after
\* it and that token does not look like a flag (and is a boolean literal if
\* the flag is boolean); a shorthand that is not the last character of its
\* cluster never takes the following token.
C18_FollowingTokenOnlyForLastShorthand ==
    [][(ResolvedShortNext /\ TookFollowingToken) =>
          /\ Len(pc.shorthands) = 1
          /\ NotFlagLike(Head(pc.sargs))
          /\ IsBoolFlag(flag[ShortFlagNext]) => isBool(Head(pc.sargs))]_vars

----------------------------------------------------------------------------
(* Properties of repeated Parse calls, checked under SpecReparse.          *)

\* C19: when a Parse call has returned, for every argument vector including
\* the empty one, Args() holds only arguments of that call (each is a token
\* of its vector, and there are no more of them than tokens) and
\* ArgsLenAtDash() is -1 unless that call took a `--`; and no step of a
\* Parse call changes the set of registered flags.
C19_ParseResetsArgsAndDash ==
    /\ [](ParseDone =>
            /\ Len(fs[1].args) <= Len(CurArgv)
            /\ \A i \in 1..Len(fs[1].args) : fs[1].args[i] \in Range(CurArgv)
            /\ hist.dashAt = 0 => fs[1].argsLenAtDash = -1)
    /\ [][(ret'.op = "Parse" \/ pc.state # "idle")
            => fs'[1].formal = fs[1].formal]_vars

----------------------------------------------------------------------------
(* Properties of SetNormalizeFunc, checked under Spec.                     *)

\* the step being taken is a call of SetNormalizeFunc on registry 1
SetNormalizeFuncStep ==
    /\ ret'.op = "SetNormalizeFunc"
    /\ hist'.ncalls = hist.ncalls + 1

\* the function n does not map the names of two registered flags to one name
NoCollision(n) ==
    \A a, b \in Registered(1) :
        a # b => ApplyNormalizeFunc(n, flag[a].Name) # ApplyNormalizeFunc(n, flag[b].Name)

\* C20: a call SetNormalizeFunc(n) on a registry that holds flags, n not
\* colliding two registered names (both functions of the model are
\* idempotent), leaves every registered flag keyed in formal under n of its
\* name, leaves the number of registered flags unchanged, leaves every
\* registered flag that was set Changed and in actual under n of its name,
\* and changes no flag's value or Changed marker.
C20_SetNormalizeFuncRekeys ==
    [][(/\ SetNormalizeFuncStep
        /\ Registered(1) # {}
        /\ NoCollision(fs'[1].normalizeNameFunc))
          => LET n == fs'[1].normalizeNameFunc
                 key(id) == ApplyNormalizeFunc(n, flag[id].Name)
             IN /\ \A id \in Registered(1) :
                      /\ key(id) \in DOMAIN fs'[1].formal
                      /\ fs'[1].formal[key(id)] = id
                /\ Cardinality(DOMAIN fs'[1].formal) = Cardinality(DOMAIN fs[1].formal)
                /\ \A k \in DOMAIN fs[1].actual :
                      fs[1].actual[k] \in Registered(1) =>
                          /\ flag'[fs[1].actual[k]].Changed
                          /\ key(fs[1].actual[k]) \in DOMAIN fs'[1].actual
                          /\ fs'[1].actual[key(fs[1].actual[k])] = fs[1].actual[k]
                /\ \A id \in FlagIds :
                      /\ flag'[id].Value = flag[id].Value
                      /\ flag'[id].Changed = flag[id].Changed]_vars

\* AddFlag(c_t), Set("c_t", "1"), SetNormalizeFunc(dash): the flag is keyed
\* under `c-t` in formal and in actual, and is still Changed with value 1
C20_Witness ==
    /\ ret.op = "SetNormalizeFunc"
    /\ hist.ncalls = 3
    /\ hist.nadds = 1
    /\ hist.nsets = 1
    /\ fs[1].normalizeNameFunc = "dash"
    /\ DOMAIN fs[1].formal = {<<"c", "-", "t">>}
    /\ fs[1].formal[<<"c", "-", "t">>] = 6
    /\ DOMAIN fs[1].actual = {<<"c", "-", "t">>}
    /\ fs[1].actual[<<"c", "-", "t">>] = 6
    /\ flag[6].Changed
    /\ flag[6].Value = 1

----------------------------------------------------------------------------
(* Properties of name normalization, checked under SpecNorm.               *)

\* longest argument vector handed to Parse by the normalization specification
MaxNormArgs == 2
\* most Set calls made by the caller of the normalization specification
MaxNormSets == 1

\* the flags registered by the normalization specification, in order: two
\* negatable booleans (`vb`, `no-q`), the float64 flag built with the raw
\* name `c_t`, and the shorthand-only flag `so`
NormFlags == <<1, 2, 6, 5>>

\* the raw name the caller built flag id with
RawName(id) == FlagDecl[id].Name

\* the names handed to Lookup and Set, and spelt in long tokens
NormNames ==
    { <<"v", "b">>, <<"n", "o", "-", "q">>, <<"n", "o", "_", "q">>,
      <<"c", "-", "t">>, <<"c", "_", "t">>, <<"s", "o">> }

\* the value texts handed to Set and spelt in the tokens `--s=v`
NormValues == { <<"1">> }

\* the command-line tokens of the normalization specification: `--s=v` and
\* `--no-s` for the names s, and a shorthand
NormTokens ==
    {LongToken(s) \o <<"=">> \o v : s \in NormNames, v \in NormValues}
        \cup {NoToken(s) : s \in NormNames}
        \cup { <<"-", "v">> }

\* a registry whose normalization function was installed by SetNormalizeFunc
\* before NormFlags were registered
InitNorm ==
    /\ \E n \in Normalizers, unk \in BOOLEAN, req \in BOOLEAN :
          LET e == SetNormalizeFunc(NewFlagSet("ContinueOnError"), NewHeap, n, <<>>)
              a == Register(e.fs, e.flag, NormFlags, 1)
          IN /\ fs = [r \in FlagSets |->
                        IF r = 1
                        THEN [a.fs EXCEPT !.AllowUnknownFlags = unk,
                                          !.AllowRequiredFlags = req]
                        ELSE NewFlagSet("ContinueOnError")]
             /\ flag = a.flag
    /\ pc = Idle
    /\ ret = NewRet
    /\ hist = NoHist

\* the first Parse of the registry, on any vector of normalization tokens
FirstNormParse ==
    /\ ~fs[1].parsed
    /\ \E arguments \in ArgVectors(NormTokens, MaxNormArgs) : ParseCall(1, arguments)

\* a Set call made before the registry is parsed
NormSet ==
    /\ hist.nsets < MaxNormSets
    /\ ~fs[1].parsed
    /\ \E name \in NormNames, value \in NormValues : SetCall(1, name, value)

NextNorm ==
    \/ NormSet
    \/ FirstNormParse
    \/ ParseArgsStep
    \/ ParseShortArgStep
    \/ ParseValidateStep

SpecNorm == InitNorm /\ [][NextNorm]_vars

\* the name s has the normal form of the raw name of flag id
SameNormalForm(s, id) ==
    normalizeFlagName(fs[1], s) = normalizeFlagName(fs[1], RawName(id))

\* the step being taken is a call Set(s, v)
SetStep(s, v) ==
    /\ ret'.op = "Set"
    /\ hist'.nsets = hist.nsets + 1
    /\ ret'.name = s
    /\ ret'.value = v

\* the next step of parseArgs takes the token t
TokenNext(t) ==
    /\ pc.state = "args"
    /\ Len(pc.args) > 0
    /\ Head(pc.args) = t

\* the step being taken invoked the setter once, for flag id with the text v
SetterGot(id, v) ==
    /\ Len(NewCalls) = 1
    /\ NewCalls[1].flag = id
    /\ NewCalls[1].value = v

\* C21: for every registered flag that can be named in long syntax (it is not
\* shorthand-only) and every name s with the normal form of its raw name:
\* Lookup(s) is that flag, a call Set(s, v) hands v to its value, the step
\* that parses `--s=v` hands v to its setter and, if it is a negatable
\* boolean, the step that parses `--no-s` hands "false" to its setter.
C21_NormalizationConsistent ==
    /\ [](\A id \in Registered(1), s \in NormNames :
            (SameNormalForm(s, id) /\ ~flag[id].ShorthandOnly)
                => Lookup(fs[1], s) = id)
    /\ [][\A id \in Registered(1), s \in NormNames, v \in NormValues :
            (SameNormalForm(s, id) /\ ~flag[id].ShorthandOnly) =>
                /\ SetStep(s, v) => ret'.calls = <<[flag |-> id, value |-> v]>>
                /\ TokenNext(LongToken(s) \o <<"=">> \o v) => SetterGot(id, v)
                /\ (TokenNext(NoToken(s)) /\ IsBoolFlag(flag[id])
                      /\ flag[id].AddNegative)
                      => SetterGot(id, <<"f", "a", "l", "s", "e">>)]_vars

----------------------------------------------------------------------------
(* Properties of positional arguments, checked under SpecParse.            *)

\* the next step of parseArgs takes a token that is empty, does not start
\* with `-`, or is `-` alone
PositionalNext ==
    /\ pc.state = "args"
    /\ Len(pc.args) > 0
    /\ LET s == Head(pc.args) IN Len(s) = 0 \/ s[1] # "-" \/ s = <<"-">>

\* C22: the step that takes such a token appends it to the positional
\* arguments; in interspersed mode nothing else is appended and scanning goes
\* on with the next token; in non-interspersed mode every remaining token is
\* appended after it, unchanged and in order, the parse ends without an
\* error, no setter is invoked and no flag changes.
C22_PositionalToken ==
    [][PositionalNext =>
          LET F == fs[pc.fs]
              s == Head(pc.args)
              rest == Tail(pc.args)
          IN IF F.interspersed
             THEN /\ fs'[pc.fs].args = Append(F.args, s)
                  /\ pc'.state = "args"
                  /\ pc'.args = rest
             ELSE /\ fs'[pc.fs].args = Append(F.args, s) \o rest
                  /\ pc'.state = "idle"
                  /\ ret'.err = NoErr
                  /\ hist'.calls = hist.calls
                  /\ flag' = flag]_vars

\* a non-interspersed parse of `x --vb` has returned: both tokens are
\* positional and the flag vb was not set
C22_Witness ==
    /\ ParseDone
    /\ ~fs[1].interspersed
    /\ CurArgv = << <<"x">>, <<"-", "-", "v", "b">> >>
    /\ fs[1].args = CurArgv
    /\ hist.calls = <<>>
    /\ ~flag[1].Changed

----------------------------------------------------------------------------
(* Properties of boolean flags, checked under SpecBool.                    *)

\* longest argument vector handed to Parse by the boolean specification
MaxBoolArgs == 2

\* the command-line tokens of the boolean specification: `--<name>` and
\* `--no-<name>` of the bool flags `vb` and `no-q`, a shorthand and a
\* positional argument
BoolTokens ==
    { LongToken(<<"v", "b">>), NoToken(<<"v", "b">>),
      LongToken(<<"n", "o", "-", "q">>), NoToken(<<"n", "o", "-", "q">>),
      <<"-", "v">>, <<"x">> }

\* the flags as the caller builds them, the bool flags with the AddNegative
\* option (neg) or without it, as Var leaves them
BoolHeap(neg) ==
    [id \in FlagIds |->
        IF IsBoolFlag(NewHeap[id]) THEN [NewHeap[id] EXCEPT !.AddNegative = neg]
        ELSE NewHeap[id]]

\* a ContinueOnError registry with ParseFlags registered
InitBool ==
    /\ \E neg \in BOOLEAN, unk \in BOOLEAN, req \in BOOLEAN :
          LET a == Register(NewFlagSet("ContinueOnError"), BoolHeap(neg), ParseFlags, 1) IN
          /\ fs = [r \in FlagSets |->
                     IF r = 1
                     THEN [a.fs EXCEPT !.AllowUnknownFlags = unk,
                                       !.AllowRequiredFlags = req]
                     ELSE NewFlagSet("ContinueOnError")]
          /\ flag = a.flag
    /\ pc = Idle
    /\ ret = NewRet
    /\ hist = NoHist

\* the first Parse of the registry, on any vector of boolean tokens
FirstBoolParse ==
    /\ ~fs[1].parsed
    /\ \E arguments \in ArgVectors(BoolTokens, MaxBoolArgs) : ParseCall(1, arguments)

NextBool ==
    \/ FirstBoolParse
    \/ ParseArgsStep
    \/ ParseShortArgStep
    \/ ParseValidateStep

SpecBool == InitBool /\ [][NextBool]_vars

\* the step being taken did not end the parse with an error the token caused
TokenAccepted ==
    /\ pc'.state = "args"
    /\ fs'[pc.fs].unknownFlags = fs[pc.fs].unknownFlags

\* C23: for every bool flag added to the flag set, the step that parses
\* `--<name>` is accepted and leaves its value true, and the step that parses
\* `--no-<name>` is accepted and leaves its value false.
C23_BoolAndNoBoolAccepted ==
    [][\A id \in Registered(1) :
          IsBoolFlag(flag[id]) =>
              /\ TokenNext(LongToken(flag[id].Name))
                    => (TokenAccepted /\ flag'[id].Value = TRUE)
              /\ TokenNext(NoToken(flag[id].Name))
                    => (TokenAccepted /\ flag'[id].Value = FALSE)]_vars

----------------------------------------------------------------------------
(* Properties of two registries, checked under SpecIndep.                  *)

\* longest argument vector handed to Parse by the two-registry specification
MaxIndepArgs == 1

\* the flags registered in registry 1
IndepFlags == <<1, 3>>

\* the flags registered in registry 2 when it is built on its own
IndepOwnFlags == <<2, 6>>

\* the names handed to Set of either registry
IndepNames == { <<"v", "b">>, <<"c", "-", "t">>, <<"n", "o", "-", "q">> }

\* the command-line tokens of the two-registry specification
IndepTokens ==
    { <<"-", "-", "c", "-", "t", "=", "5">>, <<"-", "v">>, <<"x">>, <<"-", "-">>,
      <<"-", "-", "z", "z">> }

\* two distinct FlagSets with the UnknownFlags allowance: registry 1 holds
\* IndepFlags; registry 2 holds flags of its own, or was filled by
\* AddFlagSet(registry 1)
InitIndep ==
    /\ \E shared \in BOOLEAN :
          LET new == [NewFlagSet("ContinueOnError") EXCEPT !.AllowUnknownFlags = TRUE]
              a == Register(new, NewHeap, IndepFlags, 1)
              own == Register(new, a.flag, IndepOwnFlags, 1)
              b == AddFlagSet(new, a.fs, a.flag)
          IN IF shared
             THEN /\ fs = [r \in FlagSets |-> IF r = 1 THEN b.newSet ELSE b.fs]
                  /\ flag = b.flag
             ELSE /\ fs = [r \in FlagSets |-> IF r = 1 THEN a.fs ELSE own.fs]
                  /\ flag = own.flag
    /\ pc = Idle
    /\ ret = NewRet
    /\ hist = NoHist

\* the first Parse of either registry
FirstIndepParse ==
    \E r \in FlagSets :
        /\ ~fs[r].parsed
        /\ \E arguments \in ArgVectors(IndepTokens, MaxIndepArgs) : ParseCall(r, arguments)

NextIndep ==
    \/ \E r \in FlagSets, name \in IndepNames : SetCall(r, name, <<"1">>)
    \/ FirstIndepParse
    \/ ParseArgsStep
    \/ ParseShortArgStep
    \/ ParseValidateStep

SpecIndep == InitIndep /\ [][NextIndep]_vars

\* the step being taken belongs to an operation on registry r
StepOn(r) == IF pc.state = "idle" THEN ret'.fs = r ELSE pc.fs = r

\* C24: a step of an operation on one registry leaves the other registry's
\* positional arguments, terminator index, unknown-flag record, set flags and
\* the Changed markers of its flags as they were; and each registry's set
\* flags and Changed markers are the ones its own Set and Parse operations
\* produce: the flags they set, in the order of their first setting.
C24_RegistriesIndependent ==
    /\ [][\A r \in FlagSets :
            ~StepOn(r) =>
                /\ fs'[r].args = fs[r].args
                /\ fs'[r].argsLenAtDash = fs[r].argsLenAtDash
                /\ fs'[r].unknownFlags = fs[r].unknownFlags
                /\ fs'[r].actual = fs[r].actual
                /\ fs'[r].orderedActual = fs[r].orderedActual
                /\ \A id \in Registered(r) : flag'[id].Changed = flag[id].Changed]_vars
    /\ [](\A r \in FlagSets :
            /\ fs[r].orderedActual = FirstOccurrences(hist.setLog[r], {})
            /\ \A id \in Registered(r) :
                  flag[id].Changed <=> id \in Range(hist.setLog[r]))

----------------------------------------------------------------------------
(* Termination of Parse, checked under SpecTerm.                           *)

\* longest argument vector handed to Parse by the termination specification
MaxTermArgs == 2

\* the command-line tokens of the termination specification: clusters of
\* registered and of unregistered shorthands, a cluster with a value, long
\* flags, the terminator and tokens that do not look like flags
TermTokens ==
    { <<"-", "v", "v">>, <<"-", "v", "c", "5">>, <<"-", "c", "v">>, <<"-", "z", "z">>,
      <<"-", "v">>, <<"-", "-", "z", "z">>, <<"-", "-", "c", "-", "t">>,
      <<"-", "-">>, <<"x">>, <<"5">> }

\* the first Parse of the registry, on any vector of termination tokens
FirstTermParse ==
    /\ ~fs[1].parsed
    /\ \E arguments \in ArgVectors(TermTokens, MaxTermArgs) : ParseCall(1, arguments)

NextTerm ==
    \/ FirstTermParse
    \/ ParseArgsStep
    \/ ParseShortArgStep
    \/ ParseValidateStep

\* Parse on the registries of InitPolicy; a Parse call that was made runs on:
\* the loops of parseArgs and parseShortArg are sequential code
SpecTerm ==
    /\ InitPolicy
    /\ [][NextTerm]_vars
    /\ WF_vars(ParseArgsStep)
    /\ WF_vars(ParseShortArgStep)
    /\ WF_vars(ParseValidateStep)

\* a Parse call is in one of its loops or at its end
InParse == pc.state \in {"args", "shorts", "validate"}

\* C25: every iteration of the loop of parseArgs leaves fewer tokens to parse
\* than it found (also when it hands a token to parseShortArg and gets the
\* arguments back from it), every iteration of the loop of parseShortArg
\* leaves fewer cluster characters than it found, and a Parse call in
\* progress reaches its result: a return, an exit or a panic.
C25_ParseTerminates ==
    /\ [][/\ (pc.state = "args" /\ pc'.state = "args")
                => Len(pc'.args) < Len(pc.args)
          /\ (pc.state = "args" /\ pc'.state = "shorts")
                => (Len(pc'.sargs) < Len(pc.args)
                      /\ Len(pc'.shorthands) < Len(Head(pc.args)))
          /\ (pc.state = "shorts" /\ pc'.state = "shorts")
                => (Len(pc'.shorthands) < Len(pc.shorthands) /\ pc'.sargs = pc.sargs)
          /\ (pc.state = "shorts" /\ pc'.state = "args")
                => Len(pc'.args) <= Len(pc.sargs)]_vars
    /\ (InParse ~> ParseEnded)

\* the parse of `-cv 5` has returned after two iterations of the cluster loop
C25_Witness ==
    /\ ParseEnded
    /\ CurArgv = << <<"-", "c", "v">>, <<"5">> >>
    /\ Len(hist.calls) = 2
    /\ hist.tok = 2

----------------------------------------------------------------------------
(* The int8 slice value adapter (src/README.md, lines 452-542), checked    *)
(* under SpecInt8Slice.                                                    *)

\* the range of int8
Int8Min == -128
Int8Max == 127

\* the mutating calls made on the value in one behaviour
MaxInt8Ops == 2

DecDigits == <<"0", "1", "2", "3", "4", "5", "6", "7", "8", "9">>
HexLetters == <<"a", "b", "c", "d", "e", "f">>

\* the value strconv gives a byte as a digit; 36 for a byte that is none
\* (the texts of the model have no upper-case letters and no '_')
ByteDigit(c) ==
    IF \E i \in 1..10 : DecDigits[i] = c
    THEN (CHOOSE i \in 1..10 : DecDigits[i] = c) - 1
    ELSE IF \E i \in 1..6 : HexLetters[i] = c
    THEN (CHOOSE i \in 1..6 : HexLetters[i] = c) + 9
    ELSE 36

\* the digit loop of strconv.ParseUint; -1 stands for ErrSyntax (the texts
\* of the model are too short to overflow 64 bits)
RECURSIVE UintDigits(_, _, _)
UintDigits(s, base, n) ==
    IF Len(s) = 0 THEN n
    ELSE IF ByteDigit(s[1]) >= base THEN -1
    ELSE UintDigits(Tail(s), base, n * base + ByteDigit(s[1]))

\* strconv.ParseUint(s, 0, 64): the base is taken from the prefix
ParseUint(s) ==
    IF Len(s) = 0 THEN -1
    ELSE IF s[1] # "0" THEN UintDigits(s, 10, 0)
    ELSE IF Len(s) >= 3 /\ s[2] = "b" THEN UintDigits(Drop(s, 2), 2, 0)
    ELSE IF Len(s) >= 3 /\ s[2] = "o" THEN UintDigits(Drop(s, 2), 8, 0)
    ELSE IF Len(s) >= 3 /\ s[2] = "x" THEN UintDigits(Drop(s, 2), 16, 0)
    ELSE UintDigits(Tail(s), 8, 0)

\* strconv.ParseInt(s, 0, 8)
ParseInt(s) ==
    IF Len(s) = 0 THEN [v |-> 0, err |-> "syntax"]
    ELSE LET neg == s[1] = "-"
             un == ParseUint(IF s[1] \in {"+", "-"} THEN Tail(s) ELSE s)
         IN IF un = -1 THEN [v |-> 0, err |-> "syntax"]
            ELSE IF ~neg /\ un >= Int8Max + 1 THEN [v |-> Int8Max, err |-> "range"]
            ELSE IF neg /\ un > -Int8Min THEN [v |-> Int8Min, err |-> "range"]
            ELSE [v |-> IF neg THEN -un ELSE un, err |-> "nil"]

\* the decimal digits of a natural number, most significant first
RECURSIVE FormatUint(_)
FormatUint(n) ==
    IF n < 10 THEN <<DecDigits[n + 1]>>
    ELSE FormatUint(n \div 10) \o <<DecDigits[(n % 10) + 1]>>

\* a serialization padded with zeros to three digits ("%03d")
toStringPadded(val) ==
    LET d == FormatUint(IF val < 0 THEN -val ELSE val)
        pad == [i \in 1..(IF Len(d) < 3 THEN 3 - Len(d) ELSE 0) |-> "0"]
    IN (IF val < 0 THEN <<"-">> ELSE <<>>) \o pad \o d

\* int8SliceValue.toString: fmt.Sprintf("%d", val)
toString(val) ==
    IF val < 0 THEN <<"-">> \o FormatUint(-val) ELSE FormatUint(val)

\* int8SliceValue.fromString
fromString(val) == ParseInt(val)

\* newInt8SliceValue(val, p)
newInt8SliceValue(val) == [value |-> val, changed |-> FALSE]

\* a Set that appends to whatever is stored
int8SliceSetKeepsDefault(s, val) ==
    LET r == ParseInt(TrimSpace(val)) IN
    IF r.err # "nil" THEN [s |-> s, err |-> r.err]
    ELSE [s |-> [value |-> Append(s.value, r.v), changed |-> TRUE], err |-> "nil"]

\* int8SliceValue.Set
int8SliceSet(s, val) ==
    LET r == ParseInt(TrimSpace(val)) IN
    IF r.err # "nil" THEN [s |-> s, err |-> r.err]
    ELSE [s |-> [value |-> Append(IF s.changed THEN s.value ELSE <<>>, r.v),
                 changed |-> TRUE],
          err |-> "nil"]

\* int8SliceValue.Append
int8SliceAppend(s, val) ==
    LET r == fromString(val) IN
    IF r.err # "nil" THEN [s |-> s, err |-> r.err]
    ELSE [s |-> [s EXCEPT !.value = Append(s.value, r.v)], err |-> "nil"]

\* int8SliceValue.Replace: the first text that does not parse ends the call
int8SliceReplace(s, val) ==
    LET bad == {i \in 1..Len(val) : fromString(val[i]).err # "nil"} IN
    IF bad # {}
    THEN [s |-> s, err |-> fromString(val[CHOOSE i \in bad : \A j \in bad : i <= j]).err]
    ELSE [s |-> [s EXCEPT !.value = [i \in 1..Len(val) |-> fromString(val[i]).v]],
          err |-> "nil"]

\* int8SliceValue.GetSlice
GetSlice(s) == [i \in 1..Len(s.value) |-> toString(s.value[i])]

\* the default lists a caller passes to Int8Slice: the empty list, every
\* list of one int8, and a list of two
Int8Defaults ==
    {<<>>, <<1, 2>>} \cup {<<n>> : n \in Int8Min..Int8Max}

\* the texts handed to Set, Append and Replace
Int8Texts ==
    { <<"1">>, <<" ", "5">>, <<"-", "1", "2", "8">>, <<"0", "x", "7", "f">>,
      <<"0", "1", "0">>, <<"1", "2", "8">>, <<"0", "8">>, <<>> }

\* the lists handed to Replace
Int8Lists ==
    { <<>>, << <<"1">>, <<"0", "1", "0">> >>, << <<"1">>, <<" ", "5">> >> }

\* the Flag that holds the value adapter
Int8Flag == 1

\* the int8SliceValue of the model
Isv == flag[Int8Flag].Value

\* the outcome of a call on the value: its error and, for GetSlice, its result
Int8Ret(op, value, err, out) == [op |-> op, value |-> value, err |-> err, out |-> out]

\* a mutating call: the new value, what it returned, and its record in the log
Int8Call(op, value, r) ==
    /\ hist.ncalls < MaxInt8Ops
    /\ flag' = [flag EXCEPT ![Int8Flag].Value = r.s]
    /\ ret' = Int8Ret(op, value, r.err, <<>>)
    /\ hist' = [hist EXCEPT !.ncalls = @ + 1,
                            !.calls = Append(@, [op |-> op, value |-> value, err |-> r.err])]
    /\ UNCHANGED <<fs, pc>>

Int8SetCall == \E val \in Int8Texts : Int8Call("Set", val, int8SliceSet(Isv, val))

Int8AppendCall == \E val \in Int8Texts : Int8Call("Append", val, int8SliceAppend(Isv, val))

Int8ReplaceCall == \E val \in Int8Lists : Int8Call("Replace", val, int8SliceReplace(Isv, val))

\* s.Replace(s.GetSlice())
Int8RoundTrip == Int8Call("RoundTrip", GetSlice(Isv), int8SliceReplace(Isv, GetSlice(Isv)))

\* s.GetSlice()
Int8GetSlice ==
    /\ ret' = Int8Ret("GetSlice", <<>>, "nil", GetSlice(Isv))
    /\ UNCHANGED <<fs, flag, pc, hist>>

InitInt8Slice ==
    /\ fs = [r \in FlagSets |-> NewFlagSet("ContinueOnError")]
    /\ \E val \in Int8Defaults :
          flag = << [Name |-> <<"i", "8">>, Shorthand |-> NoRune, ShorthandOnly |-> FALSE,
                     AddNegative |-> FALSE, Required |-> FALSE, Kind |-> "int8Slice",
                     Changed |-> FALSE, Value |-> newInt8SliceValue(val)] >>
    /\ pc = Idle
    /\ ret = Int8Ret("new", <<>>, "nil", <<>>)
    /\ hist = NoHist

NextInt8Slice ==
    \/ Int8SetCall
    \/ Int8AppendCall
    \/ Int8ReplaceCall
    \/ Int8RoundTrip
    \/ Int8GetSlice

SpecInt8Slice == InitInt8Slice /\ [][NextInt8Slice]_vars

\* the values of the texts of the successful Set calls so far, in call order
Int8SetValues ==
    LET ok == SelectSeq(hist.calls, LAMBDA c : c.op = "Set" /\ c.err = "nil")
    IN [i \in 1..Len(ok) |-> ParseInt(TrimSpace(ok[i].value)).v]

\* C26: on a freshly created int8 slice value with any default list, after
\* k >= 1 successful Set calls (and no other mutating call) the stored list
\* is exactly the values of the texts of those calls, in call order: the
\* first Set discards the default, every later Set appends
C26_SetDiscardsDefaultThenAppends ==
    ((\A i \in 1..Len(hist.calls) : hist.calls[i].op = "Set") /\ Len(Int8SetValues) >= 1)
        => Isv.value = Int8SetValues

\* two Sets have succeeded and the stored list is their two values
C26_Witness ==
    /\ Len(hist.calls) = 2
    /\ hist.calls[1] = [op |-> "Set", value |-> <<"0", "1", "0">>, err |-> "nil"]
    /\ hist.calls[2] = [op |-> "Set", value |-> <<" ", "5">>, err |-> "nil"]
    /\ Isv.value = <<8, 5>>

\* C27: the decimal text toString produces for an int8 parses back, with
\* fromString, to the same integer (every integer of [-128, 127] is stored
\* in some state), and Replace(GetSlice()) succeeds and leaves the stored
\* list unchanged
C27_Int8RoundTrip ==
    /\ [](\A i \in 1..Len(Isv.value) :
             /\ Isv.value[i] \in Int8Min..Int8Max
             /\ fromString(toString(Isv.value[i])) = [v |-> Isv.value[i], err |-> "nil"])
    /\ [][(ret'.op = "RoundTrip" /\ hist'.ncalls > hist.ncalls) =>
             /\ ret'.err = "nil"
             /\ Isv' = Isv
             /\ ret'.value = GetSlice(Isv)]_vars

\* Replace(GetSlice()) has returned nil on the list [-128], handed over as
\* the text -128
C27_Witness ==
    /\ ret.op = "RoundTrip"
    /\ ret.err = "nil"
    /\ ret.value = << <<"-", "1", "2", "8">> >>
    /\ Isv.value = <<Int8Min>>

----------------------------------------------------------------------------
(* Negation and explicit values, checked under SpecNeg.                    *)

\* the length of the argument vectors of SpecNeg
MaxNegArgs == 2

\* long tokens with a value, with and without the `no-` prefix, for the
\* booleans `vb` and `no-q` and for the float `c-t`, and tokens without one
NegTokens ==
    { LongToken(<<"v", "b">>) \o <<"=", "1">>, NoToken(<<"v", "b">>) \o <<"=", "1">>,
      NoToken(<<"v", "b">>) \o <<"=", "0">>,
      LongToken(<<"n", "o", "-", "q">>) \o <<"=", "1">>,
      NoToken(<<"n", "o", "-", "q">>) \o <<"=", "1">>,
      LongToken(<<"c", "-", "t">>) \o <<"=", "5">>,
      LongToken(<<"v", "b">>), <<"-", "v">> }

\* the first Parse of the registry, on any vector of these tokens
FirstNegParse ==
    /\ ~fs[1].parsed
    /\ \E arguments \in ArgVectors(NegTokens, MaxNegArgs) : ParseCall(1, arguments)

NextNeg ==
    \/ FirstNegParse
    \/ ParseArgsStep
    \/ ParseShortArgStep
    \/ ParseValidateStep

SpecNeg == InitBool /\ [][NextNeg]_vars

\* the token t is `--<name>=v`
HasValue(t) == HasPrefix(t, <<"-", "-">>) /\ Len(SplitN2(Drop(t, 2))) = 2

\* the name part of the token `--<name>=v`
TokenName(t) == SplitN2(Drop(t, 2))[1]

\* the parse being run names a registered flag with the token t as it stands
NamesFlag(t) == normalizeFlagName(fs[pc.fs], TokenName(t)) \in DOMAIN fs[pc.fs].formal

\* the parse being run retargets the token t = `--no-<name>=v` to the
\* negatable boolean <name>: negation was requested
NegationRequested(t) ==
    /\ ~NamesFlag(t)
    /\ Len(TokenName(t)) > 3
    /\ HasPrefix(TokenName(t), <<"n", "o", "-">>)
    /\ LET b == normalizeFlagName(fs[pc.fs], Drop(TokenName(t), 3)) IN
       /\ b \in DOMAIN fs[pc.fs].formal
       /\ flag[fs[pc.fs].formal[b]].AddNegative
       /\ IsBoolFlag(flag[fs[pc.fs].formal[b]])

\* the step being taken ends the parse with 'flag cannot have a value'
RejectedForValue ==
    /\ pc'.state = "idle"
    /\ ret'.err.kind = "CannotHaveValue"

\* C28: negation and an explicit value are mutually exclusive. The step that
\* takes a token `--no-<name>=v` retargeted to the negatable boolean <name>
\* ends the parse with an error without invoking the setter and leaves every
\* flag's value and Changed marker as they were; the step that takes a token
\* `--<name>=v` naming a registered flag as it stands (no negation was
\* requested) never ends the parse with 'flag cannot have a value'.
C28_NegationExcludesValue ==
    [][\A t \in NegTokens : (TokenNext(t) /\ HasValue(t)) =>
          /\ NegationRequested(t) =>
                /\ RejectedForValue
                /\ NewCalls = <<>>
                /\ flag' = flag
          /\ NamesFlag(t) => ~RejectedForValue]_vars

----------------------------------------------------------------------------
(* The set records over repeated Parse calls, checked under SpecReparse.   *)

\* fs.NFlag()
NFlag(F) == Cardinality(DOMAIN F.actual)

\* the flags whose setter the Parse call in progress or just completed invoked
SetInCall == {hist.calls[i].flag : i \in 1..Len(hist.calls)}

\* C29: when a Parse call has returned, NFlag() counts and GetFlags() lists
\* exactly the flags that were set during that call, and a registered flag is
\* Changed only if it was set during that call.
C29_SetRecordsOfCurrentPass ==
    ParseDone =>
        /\ NFlag(fs[1]) = Cardinality(SetInCall)
        /\ Range(GetFlags(fs[1]).flags) = SetInCall
        /\ \A id \in Registered(1) : flag[id].Changed => id \in SetInCall

----------------------------------------------------------------------------
(* The value of a bare long flag, checked under SpecParse.                 *)

\* the flags of registry 1 that reach the value switch of parseLongArg by
\* their long name and are neither boolean-shaped nor optional-argument
ValueFlags ==
    {id \in Registered(1) :
        /\ ~flag[id].ShorthandOnly
        /\ ~IsBoolFlag(flag[id])
        /\ ~IsOptional(flag[id])}

\* C30: the step that takes the bare long form `--<name>` of such a flag
\* consumes the following token as the value (hands it to the setter and
\* goes on after it) exactly when a following token exists and does not
\* start with `-`, the empty string included; otherwise it ends the parse
\* with 'flag needs an argument' without invoking the setter.
C30_FollowingTokenIsValue ==
    [][\A id \in ValueFlags : TokenNext(LongToken(flag[id].Name)) =>
          LET rest == Tail(pc.args) IN
          IF Len(rest) > 0 /\ ~HasPrefix(rest[1], <<"-">>)
          THEN /\ SetterGot(id, rest[1])
               /\ pc'.state = "args" => pc'.args = Tail(rest)
          ELSE /\ pc'.state = "idle"
               /\ ret'.err.kind = "NeedsArgument"
               /\ NewCalls = <<>>]_vars

----------------------------------------------------------------------------
(* Removal and re-registration of flags, checked under Spec.               *)

\* the step being taken is a call fs.RemoveFlag(name) on registry 1 with a
\* name that is registered
RemoveStep ==
    /\ pc.state = "idle"
    /\ ret'.op = "RemoveFlag"
    /\ hist'.ncalls > hist.ncalls
    /\ Lookup(fs[1], ret'.name) # NilFlag

\* the flags whose setter a parse step result invoked
Invoked(a) == {a.calls[i].flag : i \in 1..Len(a.calls)}

\* C31: after RemoveFlag(name) has removed a flag, Lookup(name) is nil,
\* ShorthandLookup of its shorthand does not yield it, GetAllFlags and
\* VisitAll do not yield it, Validate does not report it, neither its long
\* token nor its shorthand token invokes its setter, and registering a flag
\* with its name and shorthand again panics only if another flag holds the
\* shorthand.
C31_RemoveFlagRemoves ==
    [][RemoveStep =>
          LET id == Lookup(fs[1], ret'.name)
              F == fs'[1]
              short == flag[id].Shorthand
          IN /\ Lookup(F, ret'.name) = NilFlag
             /\ ShorthandLookup(F, short) # id
             /\ id \notin Range(GetAllFlags(F).flags)
             /\ id \notin Range(VisitAll(F).flags)
             /\ id \notin Range(Validate(F, flag').err.flags)
             /\ id \notin Invoked(parseLongArg(F, flag', LongToken(flag[id].Name) \o <<"=", "1">>, <<>>))
             /\ short # NoRune =>
                   id \notin Invoked(parseSingleShortArg(F, flag', <<short, "1">>, <<>>))
             /\ AddFlag(F, flag', id).panic =>
                   ShorthandLookup(F, short) \notin {NilFlag, id}]_vars

----------------------------------------------------------------------------
(* The sorted views of a registry, checked under SpecSorted.               *)

\* the calls made on the registry in one behaviour
MaxSortedCalls == 6

\* fs.GetAllFlags()
GetAllFlagsCall(r) ==
    /\ pc.state = "idle"
    /\ LET g == GetAllFlags(fs[r]) IN
       /\ fs' = [fs EXCEPT ![r] = g.fs]
       /\ ret' = Ret("GetAllFlags", r, <<>>, g.flags, NilFlag, NoErr, FALSE, NoExit, <<>>)
    /\ hist' = [hist EXCEPT !.ncalls = @ + 1]
    /\ UNCHANGED <<flag, pc>>

\* fs.GetFlags()
GetFlagsCall(r) ==
    /\ pc.state = "idle"
    /\ LET g == GetFlags(fs[r]) IN
       /\ fs' = [fs EXCEPT ![r] = g.fs]
       /\ ret' = Ret("GetFlags", r, <<>>, g.flags, NilFlag, NoErr, FALSE, NoExit, <<>>)
    /\ hist' = [hist EXCEPT !.ncalls = @ + 1]
    /\ UNCHANGED <<flag, pc>>

\* a registry as NewFlagSet leaves it: SortFlags is true
InitSorted ==
    /\ fs = [r \in FlagSets |-> NewFlagSet("ContinueOnError")]
    /\ flag = NewHeap
    /\ pc = Idle
    /\ ret = NewRet
    /\ hist = NoHist

\* the caller of SpecSorted has calls left
SortedBudget == hist.ncalls < MaxSortedCalls

NextSorted ==
    \/ SortedBudget /\ \E id \in RegFlags : AddFlagCall(1, id)
    \/ SortedBudget /\ \E name \in RegNames : RemoveFlagCall(1, name)
    \/ SortedBudget /\ \E n \in Normalizers : SetNormalizeFuncCall(1, n)
    \/ SortedBudget /\ \E name \in RegNames : SetCall(1, name, <<"1">>)
    \/ SortedBudget /\ GetAllFlagsCall(1)
    \/ SortedBudget /\ GetFlagsCall(1)

SpecSorted == InitSorted /\ [][NextSorted]_vars

\* list holds exactly the flags of the map m, in lexicographic order of
\* their current normalized names
SortedViewOf(list, m) ==
    /\ Len(list) = Cardinality(DOMAIN m)
    /\ Range(list) = {m[k] : k \in DOMAIN m}
    /\ \A i, j \in 1..Len(list) :
          i < j => StrLess(normalizeFlagName(fs[1], flag[list[i]].Name),
                           normalizeFlagName(fs[1], flag[list[j]].Name))

\* C32: with SortFlags true, in every state GetAllFlags() returns exactly
\* the registered flags and GetFlags() exactly the set flags, each in
\* lexicographic order of the current normalized names.
C32_SortedViewsNeverStale ==
    fs[1].SortFlags =>
        /\ SortedViewOf(GetAllFlags(fs[1]).flags, fs[1].formal)
        /\ SortedViewOf(GetFlags(fs[1]).flags, fs[1].actual)

----------------------------------------------------------------------------
(* Shorthands of more than one byte, checked under SpecRune.               *)

\* the length of the argument vectors of SpecRune
MaxRuneArgs == 2

\* the shorthand with a two-byte UTF-8 encoding
MultiByte == "U+00E9"

\* the flags as the caller builds them, the bool flag `vb` with shorthand sh
\* and the float flag `c-t` with shorthand sc
RuneHeap(sh, sc) ==
    [NewHeap EXCEPT ![1].Shorthand = sh, ![3].Shorthand = sc]

\* the token `-<cluster>` of a sequence of shorthands and bytes
ClusterToken(runes) ==
    <<"-">> \o (IF Len(runes) = 0 THEN <<>>
                ELSE IF Len(runes) = 1 THEN RuneToString(runes[1])
                ELSE IF Len(runes) = 2
                THEN RuneToString(runes[1]) \o RuneToString(runes[2])
                ELSE RuneToString(runes[1]) \o RuneToString(runes[2])
                     \o RuneToString(runes[3]))

\* single shorthands, clusters with the two-byte shorthand first and last,
\* attached values, and a token that does not look like a flag
RuneTokens ==
    { ClusterToken(<<MultiByte>>), ClusterToken(<<"v">>), ClusterToken(<<"c">>),
      ClusterToken(<<MultiByte, "c", "5">>), ClusterToken(<<"v", "c", "5">>),
      ClusterToken(<<"c", MultiByte>>), ClusterToken(<<MultiByte, "5">>),
      ClusterToken(<<MultiByte, "o">>), ClusterToken(<<"o", MultiByte>>),
      <<"5">> }

\* a ContinueOnError registry with ParseFlags registered, one of the
\* shorthands of `vb` and `c-t` being the two-byte one or none
InitRune ==
    /\ \E sh \in {"v", MultiByte}, sc \in {"c", MultiByte}, unk \in BOOLEAN :
          /\ sh # sc
          /\ LET a == Register(NewFlagSet("ContinueOnError"), RuneHeap(sh, sc),
                               ParseFlags, 1) IN
             /\ fs = [r \in FlagSets |->
                        IF r = 1
                        THEN [a.fs EXCEPT !.AllowUnknownFlags = unk,
                                          !.AllowRequiredFlags = TRUE]
                        ELSE NewFlagSet("ContinueOnError")]
             /\ flag = a.flag
    /\ pc = Idle
    /\ ret = NewRet
    /\ hist = NoHist

\* the first Parse of the registry, on any vector of these tokens
FirstRuneParse ==
    /\ ~fs[1].parsed
    /\ \E arguments \in ArgVectors(RuneTokens, MaxRuneArgs) : ParseCall(1, arguments)

NextRune ==
    \/ FirstRuneParse
    \/ ParseArgsStep
    \/ ParseShortArgStep
    \/ ParseValidateStep

SpecRune == InitRune /\ [][NextRune]_vars

\* the single-byte shorthand that stands in for the two-byte one: a byte
\* that no token of SpecRune holds and no flag has as its shorthand
StandIn == "z"

\* the text s with every encoding of the two-byte shorthand replaced by the
\* stand-in byte
RECURSIVE AsSingleByte(_)
AsSingleByte(s) ==
    IF Len(s) = 0 THEN <<>>
    ELSE IF DecodeRuneInString(s).rune = MultiByte
    THEN <<StandIn>> \o AsSingleByte(Drop(s, 2))
    ELSE <<s[1]>> \o AsSingleByte(Tail(s))

\* a shorthand, the two-byte one replaced by the stand-in
AsSingleRune(c) == IF c = MultiByte THEN StandIn ELSE c

\* the registry F with the two-byte shorthand replaced by the stand-in
SingleByteSet(F) ==
    [F EXCEPT !.shorthands =
        [c \in {AsSingleRune(k) : k \in DOMAIN F.shorthands} |->
            IF c = StandIn THEN F.shorthands[MultiByte] ELSE F.shorthands[c]]]

\* the flags H with the two-byte shorthand replaced by the stand-in
SingleByteHeap(H) ==
    [id \in DOMAIN H |-> [H[id] EXCEPT !.Shorthand = AsSingleRune(@)]]

\* what parseSingleShortArg does in the same state when the two-byte
\* shorthand is a single-byte one everywhere
SingleByteOutcome ==
    parseSingleShortArg(SingleByteSet(fs[pc.fs]), SingleByteHeap(flag),
                        AsSingleByte(pc.shorthands),
                        [i \in 1..Len(pc.sargs) |-> AsSingleByte(pc.sargs[i])])

\* C33: a step of the cluster loop leaves the flags (value, Changed), the
\* error outcome, the rest of the cluster and the arguments still to parse
\* as the same step does when the two-byte shorthand is a single-byte one:
\* the shorthand is resolved, the loop advances past the whole character and
\* the next whole character decides whether the rest is a value.
C33_MultiByteShorthandLikeSingleByte ==
    [][pc.state = "shorts" =>
          LET b == SingleByteOutcome IN
          /\ SingleByteHeap(flag') = b.flag
          /\ IF b.err # NoErr
             THEN pc'.state = "idle" /\ ret'.err.kind = b.err.kind
             ELSE /\ pc'.state \in {"shorts", "args"}
                  /\ AsSingleByte(pc'.shorthands) = b.outShorts
                  /\ [i \in 1..Len(pc'.args) |-> AsSingleByte(pc'.args[i])] = b.outArgs]_vars

----------------------------------------------------------------------------
(* Single use of the tokens of a Parse call, checked under SpecShort.      *)

\* the setter invocations made so far for the cluster being parsed
ClusterCalls == SelectSeq(hist.calls, LAMBDA c : c.tok = hist.tok)

\* C34: every token is used at most once. The arguments still to parse
\* never grow back during a Parse call; a step of the cluster loop that
\* hands the token following the cluster to a setter takes it out of the
\* arguments still to parse, so it is not parsed again as a positional
\* argument; and no earlier shorthand of the same cluster, of a different
\* flag, was handed that token.
C34_TokenUsedAtMostOnce ==
    [][/\ (pc.state \in {"args", "shorts"} /\ pc'.state \in {"args", "shorts"})
             => Len(pc'.args) <= Len(pc.args)
       /\ (pc.state = "shorts" /\ TookFollowingToken) =>
             /\ pc'.state \in {"args", "shorts"} => pc'.args = Tail(pc.sargs)
             /\ \A i \in 1..Len(ClusterCalls) :
                   ClusterCalls[i].value = Head(pc.sargs)
                      => ClusterCalls[i].flag = NewCalls[1].flag]_vars

----------------------------------------------------------------------------
(* Failed Set calls, checked under SpecSet.                                *)

\* the step being taken is a Set call that returns, or a step of Parse that
\* ends the call with, an InvalidArgument error
InvalidArgumentStep ==
    /\ ret'.err.kind = "InvalidArgument"
    /\ IF pc.state = "idle" THEN ret'.op = "Set" /\ hist'.ncalls > hist.ncalls
       ELSE pc'.state \in {"idle", "exited"}

\* C35: a Set that fails with an InvalidArgument error leaves every flag as
\* it was (the stored value and the Changed marker) and leaves the set flags
\* of the registry as they were.
C35_FailedSetChangesNothing ==
    [][InvalidArgumentStep =>
          /\ flag' = flag
          /\ \A r \in FlagSets :
                /\ fs'[r].actual = fs[r].actual
                /\ fs'[r].orderedActual = fs[r].orderedActual]_vars

----------------------------------------------------------------------------
(* Rejected registrations, checked under Spec.                             *)

\* the step being taken is a call of AddFlag that panics
RejectedAddStep ==
    /\ pc.state = "idle"
    /\ ret'.op = "AddFlag"
    /\ hist'.ncalls > hist.ncalls
    /\ ret'.panic

\* C36: a call of AddFlag that panics leaves the name mapping, the
\* insertion-order sequence and the shorthand mapping of the registry as
\* they were, and Lookup of the rejected flag's name returns what it
\* returned before the call.
C36_RejectedAddFlagChangesNothing ==
    [][RejectedAddStep =>
          LET r == ret'.fs IN
          /\ fs'[r].formal = fs[r].formal
          /\ fs'[r].orderedFormal = fs[r].orderedFormal
          /\ fs'[r].shorthands = fs[r].shorthands
          /\ Lookup(fs'[r], flag[ret'.id].Name) = Lookup(fs[r], flag[ret'.id].Name)]_vars

----------------------------------------------------------------------------
(* The set flags and the Changed markers, checked under Spec.              *)

\* the flags registered in registry r whose Changed marker is true
ChangedIn(r) == {id \in Registered(r) : flag[id].Changed}

\* C37: in every state, for every registry, NFlag() is the number of flags
\* registered in it whose Changed is true, and GetFlags() yields exactly
\* those flags.
C37_SetFlagsAgreeWithChanged ==
    \A r \in FlagSets :
        /\ NFlag(fs[r]) = Cardinality(ChangedIn(r))
        /\ Range(GetFlags(fs[r]).flags) = ChangedIn(r)

----------------------------------------------------------------------------
(* Setter invocations of one Parse call.                                   *)

\* the step being taken is an iteration of parseArgs or of parseShortArg
ParseLoopStep == pc.state \in {"args", "shorts"} /\ hist' # hist

\* the step being taken ends the Parse call with an error or the help signal
FailingStep ==
    /\ pc.state \in {"args", "shorts"}
    /\ pc'.state \in {"idle", "exited"}
    /\ ret'.err # NoErr

\* the flags the setter was invoked for, without error, before the step
SetBefore == {hist.calls[i].flag : i \in 1..Len(hist.calls)}

\* C38: during one Parse call every step adds at most one setter invocation
\* after the earlier ones, for the token being parsed (tokens are taken left
\* to right, and in a cluster the invocation is for its first remaining
\* shorthand); a step that resolves a shorthand without error invokes the
\* setter exactly once; after the step that ends the call with an error or
\* the help signal no invocation and no positional argument is added; and
\* the flags set before that step keep their value and Changed marker.
C38_SetterOncePerOccurrenceInOrder ==
    [][/\ ParseLoopStep =>
             /\ Len(hist'.calls) <= Len(hist.calls) + 1
             /\ SubSeq(hist'.calls, 1, Len(hist.calls)) = hist.calls
             /\ hist'.tok >= hist.tok
             /\ \A i \in 1..Len(NewCalls) : NewCalls[i].tok = hist'.tok
             /\ (pc.state = "shorts" /\ Len(NewCalls) = 1) =>
                   /\ ResolvedShortNext
                   /\ NewCalls[1].flag = ShortFlagNext
                   /\ pc'.state = "shorts" =>
                         Len(pc'.shorthands) < Len(pc.shorthands)
             /\ (pc.state = "shorts" /\ ResolvedShortNext /\ ~FailingStep) =>
                   Len(NewCalls) = 1
       /\ pc.state \in {"idle", "exited"} =>
             \/ hist'.calls = hist.calls
             \/ ret'.op = "Parse" /\ hist'.nparses # hist.nparses
       /\ FailingStep =>
             /\ fs'[pc.fs].args = fs[pc.fs].args
             /\ \A id \in SetBefore :
                   /\ flag'[id].Value = flag[id].Value
                   /\ flag'[id].Changed = flag[id].Changed]_vars
----------------------------------------------------------------------------
(* Set after Append or Replace on an int8 slice value.                     *)

\* the step being taken is a successful Set on a value that an earlier
\* successful Append or Replace has written
SetAfterAppendOrReplace ==
    /\ ret'.op = "Set"
    /\ hist'.ncalls > hist.ncalls
    /\ ret'.err = "nil"
    /\ \E i \in 1..Len(hist.calls) :
          /\ hist.calls[i].op \in {"Append", "Replace", "RoundTrip"}
          /\ hist.calls[i].err = "nil"

\* C39: a successful Set(v) on an int8 slice value that an earlier Append or
\* Replace has written leaves the previous list with the value of v added at
\* its end: no element that Append or Replace put into the list is removed
C39_SetKeepsAppendedAndReplaced ==
    [][SetAfterAppendOrReplace =>
          Isv'.value = Append(Isv.value, ParseInt(TrimSpace(ret'.value)).v)]_vars
====
